---- MODULE Spec2Model ----
(***************************************************************************)
(* The analyst server's POST / handler (src/unnamed/part_000): price       *)
(* injection, audit, planning, research, ticker discovery, synthesis and   *)
(* the recommendation validation loop, with the adapters it calls; and the *)
(* validation loop of the variant that knows the UPDATE action             *)
(* (src/unnamed/part_002).                                                 *)
(*                                                                         *)
(* Representation.                                                         *)
(*  - A JS string that the code transforms is a tuple of one-character     *)
(*    strings; '' is <<>>.  Goals and search queries, which the code only   *)
(*    concatenates, are tuples of their parts.                             *)
(*  - An optional JS value is <<>> (null / undefined / missing field) or   *)
(*    <<v>>.                                                               *)
(*  - Quantities, leverage and the budget are decimals with four           *)
(*    fractional digits, kept as integers in units of 1/Scale.  Prices,    *)
(*    balances and profits are whole numbers.  Products and quotients are  *)
(*    exact, where the code computes them in IEEE doubles.                 *)
(*  - The handler runs on one thread: between two awaits nothing else      *)
(*    happens, so the close event of the response stream is delivered only *)
(*    while an outbound call is awaited.                                   *)
(***************************************************************************)
EXTENDS Integers, Sequences, FiniteSets, TLC

VARIABLES
    userQuery,             \* req.body.userQuery, then the goal
    userBalances,          \* req.body.userBalances
    userPositions,         \* req.body.userPositions
    trackedAssets,         \* the Set of phase 0, in insertion order
    priceMap,              \* symbol -> price
    auditData,             \* the audit result, absent before phase 1 ends
    planData,              \* the plan, absent before phase 2 ends
    stepResults,           \* the research results
    newCandidates,         \* the candidate tickers of phase 3.5
    pos,                   \* position of the for..of loop of phases 0, 3, 3.5
    budget,                \* const budget, in units of 1/Scale
    aborted,               \* signal.aborted
    pc,                    \* where the handler is
    recommendations,       \* rawData.data.recommendations
    idx,                   \* position of the validation loop, 1-based
    tradeRecommendations,  \* the list being built
    response,              \* what was written to res
    log,                   \* history: one entry per recommendation the loop has left
    calls,                 \* history: one entry per adapter invocation
    other,                 \* a second request in flight, suspended at an await
    str,                   \* the argument of extractJSON
    parsed                 \* what extractJSON returned

\* what the phases before the synthesis build
early == <<userQuery, trackedAssets, priceMap, auditData, planData,
           stepResults, newCandidates, pos>>

\* what the synthesis phase and the validation loop build
late == <<budget, recommendations, idx, tradeRecommendations, log>>

\* what a step of one request's handler cannot reach: the extractor's own
\* argument and result when it is studied alone, and the other request
apart == <<other, str, parsed>>

vars == <<userBalances, userPositions, early, late, aborted, pc, response, calls,
          apart>>

-----------------------------------------------------------------------------
(* Bounds and program constants *)

MaxRecs == 2

Scale == 10000
MinNotional == 100
MinPositionFloor == 15
FractionDen == 10
DefaultUsdt == 200
MinLeverage == 1
MaxLeverage == 20

-----------------------------------------------------------------------------
(* Generic helpers *)

Absent == <<>>
Some(v) == <<v>>
IsPresent(o) == o # <<>>
Val(o) == o[1]

Max(a, b) == IF a >= b THEN a ELSE b
Min(a, b) == IF a <= b THEN a ELSE b

\* String.prototype.toUpperCase on one character (ASCII letters)
LowerCase == <<"a","b","c","d","e","f","g","h","i","j","k","l","m",
               "n","o","p","q","r","s","t","u","v","w","x","y","z">>
UpperCase == <<"A","B","C","D","E","F","G","H","I","J","K","L","M",
               "N","O","P","Q","R","S","T","U","V","W","X","Y","Z">>

UpperChar(c) ==
    IF \E i \in 1..Len(LowerCase) : LowerCase[i] = c
    THEN UpperCase[CHOOSE i \in 1..Len(LowerCase) : LowerCase[i] = c]
    ELSE c

ToUpperCase(s) == [i \in 1..Len(s) |-> UpperChar(s[i])]

\* String.prototype.includes
Includes(s, sub) ==
    \E i \in 0..(Len(s) - Len(sub)) : SubSeq(s, i + 1, i + Len(sub)) = sub

\* The characters of s that are not in the set drop, in order
RECURSIVE Strip(_, _)
Strip(s, drop) ==
    IF s = <<>> THEN <<>>
    ELSE IF Head(s) \in drop THEN Strip(Tail(s), drop)
    ELSE <<Head(s)>> \o Strip(Tail(s), drop)

RECURSIVE SeqSum(_)
SeqSum(s) == IF s = <<>> THEN 0 ELSE Head(s) + SeqSum(Tail(s))

\* All sequences over S of length at most n
RECURSIVE SeqsUpTo(_, _)
SeqsUpTo(S, n) ==
    IF n = 0 THEN {<<>>}
    ELSE LET shorter == SeqsUpTo(S, n - 1)
         IN  shorter \cup {Append(s, x) : s \in shorter, x \in S}

-----------------------------------------------------------------------------
(* String literals of the source *)

BUY    == <<"B","U","Y">>
LONG   == <<"L","O","N","G">>
AL     == <<"A","L">>
SELL   == <<"S","E","L","L">>
SHORT  == <<"S","H","O","R","T">>
SAT    == <<"S","A","T">>
CLOSE  == <<"C","L","O","S","E">>
EXIT   == <<"E","X","I","T">>
KAPAT  == <<"K","A","P","A","T">>
HOLD   == <<"H","O","L","D">>
STAY   == <<"S","T","A","Y">>
UPDATE == <<"U","P","D","A","T","E">>
MODIFY == <<"M","O","D","I","F","Y">>

BTCUSDT == <<"B","T","C","U","S","D","T">>
ETHUSDT == <<"E","T","H","U","S","D","T">>
SOLUSDT == <<"S","O","L","U","S","D","T">>

-----------------------------------------------------------------------------
(* Budget: part_000 lines 357-361 *)

\* context.userBalances.find(b => b.asset === 'USDT'), then
\* parseFloat(usdtObj ? usdtObj.free : 200)
Usdt(balances) ==
    IF \E i \in 1..Len(balances) : balances[i].asset = "USDT"
    THEN balances[CHOOSE i \in 1..Len(balances) :
                      /\ balances[i].asset = "USDT"
                      /\ \A j \in 1..(i - 1) : balances[j].asset # "USDT"].free
    ELSE DefaultUsdt

\* reduce((sum, p) => sum + parseFloat(p.unrealizedProfit || 0), 0) + usdt
TotalEquity(balances, positions) ==
    SeqSum([i \in 1..Len(positions) |-> positions[i].unrealizedProfit])
        + Usdt(balances)

\* No floor
BudgetOfTenth(totalEquity) == (totalEquity * Scale) \div FractionDen

\* The tenth taken of the magnitude of the equity
BudgetOfMagnitude(totalEquity) ==
    Max(MinPositionFloor * Scale,
        (Max(totalEquity, 0 - totalEquity) * Scale) \div FractionDen)

\* Math.max(15, totalEquity * 0.1), in units of 1/Scale
BudgetOf(totalEquity) ==
    Max(MinPositionFloor * Scale, (totalEquity * Scale) \div FractionDen)

-----------------------------------------------------------------------------
(* Price oracle: part_000 lines 61-72 *)

\* symbol.toUpperCase().replace(/[\/\s-]/g, '')
CleanSymbol(symbol) == Strip(ToUpperCase(symbol), {"/", " ", "-"})

\* What the exchange quotes for a normalized symbol; nothing for a symbol it
\* does not list (a non-success status)
Quotes(cleanSymbol) ==
    IF cleanSymbol = BTCUSDT THEN {50000}
    ELSE IF cleanSymbol = ETHUSDT THEN {3000}
    ELSE IF cleanSymbol = SOLUSDT THEN {150}
    ELSE {}

\* The values getBinancePrice can return.  Every failure, the rejection of
\* fetch by a fired signal included, is caught and becomes null.
GetBinancePrice(symbol, isAborted) ==
    IF isAborted THEN {Absent}
    ELSE {Absent} \cup {Some(p) : p \in Quotes(CleanSymbol(symbol))}

\* if (livePrice)
Truthy(o) == IsPresent(o) /\ Val(o) # 0

-----------------------------------------------------------------------------
(* The other adapters, and the history of the invocations *)

\* fetch with a signal rejects, before anything is sent, when the signal has
\* already fired.  line 65: fetch(url, { signal })
PriceRequestSent(isAborted) == ~isAborted

\* The request goes out whatever the signal
ReasoningRequestUnsignalled(isAborted) == TRUE

\* line 91: signal: signal || AbortSignal.timeout(120000), and the handler
\* always passes its signal
ReasoningRequestSent(isAborted) == ~isAborted

\* line 114: signal
SearchRequestSent(isAborted) == ~isAborted

RequestSent(adapter, isAborted) ==
    IF adapter = "price" THEN PriceRequestSent(isAborted)
    ELSE IF adapter = "reasoning" THEN ReasoningRequestSent(isAborted)
    ELSE SearchRequestSent(isAborted)

\* line 91: AbortSignal.timeout(120000), in milliseconds
DefaultCeiling == 120000

\* line 91: signal: signal || AbortSignal.timeout(120000).  The timer is
\* created only when the caller passes no signal; Absent is a fetch that
\* nothing but its caller's signal ends
ReasoningDeadline(signalPassed) ==
    IF signalPassed THEN Absent ELSE Some(DefaultCeiling)

\* lines 243, 278, 328, 511: every reasoning call of the handler passes the
\* handler's signal.  lines 65, 114: the other adapters set no timer
Deadline(adapter) ==
    IF adapter = "reasoning" THEN ReasoningDeadline(TRUE) ELSE Absent

\* One adapter invocation: which adapter, in which phase, for which symbol or
\* query, whether the signal had fired when it was invoked, whether a request
\* went out, after how long the adapter itself gives the call up, and how it
\* ended
Invocation(adapter, phase, arg, isAborted) ==
    [adapter    |-> adapter,
     phase      |-> phase,
     arg        |-> arg,
     afterAbort |-> isAborted,
     sent       |-> RequestSent(adapter, isAborted),
     deadline   |-> Deadline(adapter),
     result     |-> "pending"]

Invoked(history, adapter, phase, arg, isAborted) ==
    Append(history, Invocation(adapter, phase, arg, isAborted))

Returned(history, result) ==
    [history EXCEPT ![Len(history)].result = result]

\* lines 74-99 and the reading of the answer: makeOpenAIRequest is rejected
\* with an AbortError by a fired signal; otherwise the service answers with a
\* non-success status (line 94-97 throws), with no choices, with text that
\* extractJSON rejects, or with text that holds a JSON object
\* "jsonNull" is text in which extractJSON finds valid JSON that is not an
\* object: a fenced block holding null, which JSON.parse returns as null
ReasoningOutcomes(isAborted) ==
    IF isAborted THEN {"abortError"}
    ELSE {"nonSuccess", "emptyResponse", "noJson", "json", "jsonNull"}

\* lines 117-119: the catch of searchMarketData
SearchFailed == [error |-> TRUE, results |-> Some(<<>>)]

\* line 116 on a non-success status: the JSON body of the refusal, which has
\* neither the marker nor a results list, is returned as it is
SearchRefused == [error |-> FALSE, results |-> Absent]

\* lines 101-120: what searchMarketData returns.  Whatever is thrown inside,
\* the rejection by a fired signal included, gives SearchFailed; any JSON
\* body is returned with no look at response.ok
SearchOutcomes(isAborted) ==
    IF isAborted THEN {SearchFailed}
    ELSE {SearchFailed,
          SearchRefused,
          [error |-> FALSE, results |-> Some(<<"snippet">>)]}

\* lines 301-308: (data.results || []).map(...)
CleanData(data) ==
    [results |-> IF IsPresent(data.results) THEN Val(data.results) ELSE <<>>]

-----------------------------------------------------------------------------
(* The phases before the synthesis: part_000 lines 182-352 *)

\* line 293: slice(0, 2)
MaxSteps == 2

\* line 195
DefaultGoal == <<"Optimize my portfolio based on current 2026 market conditions.">>

\* lines 194-196
Goal(query) ==
    IF query = <<>> \/ query = <<"undefined">> \/ query = <<"null">>
    THEN DefaultGoal ELSE query

\* Set.prototype.add, in insertion order
SetAdd(seq, x) ==
    IF \E i \in 1..Len(seq) : seq[i] = x THEN seq ELSE Append(seq, x)

RECURSIVE AddSymbols(_, _, _)
AddSymbols(seq, positions, i) ==
    IF i > Len(positions) THEN seq
    ELSE AddSymbols(IF positions[i].symbol # <<>>
                    THEN SetAdd(seq, positions[i].symbol) ELSE seq,
                    positions, i + 1)

\* lines 204-211
Tracked(positions) == AddSymbols(<<BTCUSDT, ETHUSDT>>, positions, 1)

PutAlone(map, key, value) == [k \in {key} |-> value]

\* priceMap[sym] = p
Put(map, key, value) ==
    [k \in DOMAIN map \cup {key} |-> IF k = key THEN value ELSE map[k]]

\* priceMap[sym], a missing key being undefined
Get(map, key) == IF key \in DOMAIN map THEN Some(map[key]) ELSE Absent

\* String.prototype.trim
RECURSIVE Trim(_)
Trim(s) ==
    IF s = <<>> THEN s
    ELSE IF Head(s) = " " THEN Trim(Tail(s))
    ELSE IF s[Len(s)] = " " THEN Trim(SubSeq(s, 1, Len(s) - 1))
    ELSE s

\* line 340: sym.toUpperCase().trim()
CleanSym(sym) == Trim(ToUpperCase(sym))

\* line 251
FallbackAudit ==
    [audit_findings |-> "Could not perform detailed audit, proceeding with caution.",
     recommended_adjustments |-> <<>>]

Step(description, searchQuery) ==
    [action |-> "market_search", description |-> description,
     searchQuery |-> searchQuery]

\* No step at all
FallbackPlanEmpty(goal) == [steps |-> Some(<<>>)]

\* lines 283-288
FallbackPlan(goal) ==
    [steps |-> Some(<<Step("Technical analysis",
                           Some(goal \o <<" 2026 technical analysis">>)),
                      Step("Macro news", Some(<<"crypto macro news 2026">>))>>)]

StepsAll(plan) == IF IsPresent(plan.steps) THEN Val(plan.steps) ELSE <<>>

\* line 293: (planData.steps || []).slice(0, 2)
Steps(plan) ==
    LET all == IF IsPresent(plan.steps) THEN Val(plan.steps) ELSE <<>>
    IN  SubSeq(all, 1, Min(MaxSteps, Len(all)))

\* line 296: step.searchQuery || userQuery
QueryToUse(step, goal) ==
    IF IsPresent(step.searchQuery) /\ Val(step.searchQuery) # <<>>
    THEN Val(step.searchQuery) ELSE goal

\* line 310
StepResult(step, goal, data) ==
    [step |-> step.description, query |-> QueryToUse(step, goal),
     data |-> CleanData(data)]

-----------------------------------------------------------------------------
(* The loop body: part_000 lines 520-583 *)

\* (r.action || '').toUpperCase()
RawAction(r) == ToUpperCase(r.action)

\* The word SELL itself not looked for
NormalizedActionSellUnknown(rawAction) ==
    IF Includes(rawAction, BUY) \/ Includes(rawAction, LONG) \/ Includes(rawAction, AL)
    THEN BUY
    ELSE IF Includes(rawAction, SHORT) \/ Includes(rawAction, SAT)
    THEN SELL
    ELSE IF Includes(rawAction, CLOSE) \/ Includes(rawAction, EXIT) \/ Includes(rawAction, KAPAT)
    THEN CLOSE
    ELSE HOLD

\* lines 526-533
NormalizedAction(rawAction) ==
    IF Includes(rawAction, BUY) \/ Includes(rawAction, LONG) \/ Includes(rawAction, AL)
    THEN BUY
    ELSE IF Includes(rawAction, SELL) \/ Includes(rawAction, SHORT) \/ Includes(rawAction, SAT)
    THEN SELL
    ELSE IF Includes(rawAction, CLOSE) \/ Includes(rawAction, EXIT) \/ Includes(rawAction, KAPAT)
    THEN CLOSE
    ELSE HOLD

\* The filter of the earliest handler: only the exact text HOLD is skipped
DispositionUnnormalized(r, isAborted) ==
    IF r.action = HOLD THEN "continue"
    ELSE IF isAborted THEN "throw"
    ELSE "lookup"

\* lines 520-538: what the head of the loop body does with r
Disposition(r, isAborted) ==
    IF RawAction(r) = HOLD \/ RawAction(r) = STAY THEN "continue"
    ELSE IF isAborted THEN "throw"
    ELSE IF NormalizedAction(RawAction(r)) = HOLD THEN "continue"
    ELSE "lookup"

\* Truncation to four decimals
ToFixed4Truncating(num, den) == num \div den

\* parseFloat((x).toFixed(4)) for the quotient x = (num / Scale) / den with
\* num >= 0 and den > 0: the nearest multiple of 1/Scale, the larger of two
\* equally near; the result is in units of 1/Scale
ToFixed4(num, den) == (2 * num + den) \div (2 * den)

\* lines 543-560; livePrice is a positive number here
FinalQuantity(r, livePrice, bud) ==
    IF IsPresent(r.suggested_quantity) /\ Val(r.suggested_quantity) > 0
    THEN LET suggestedNotional == Val(r.suggested_quantity) * livePrice
         IN  IF suggestedNotional >= MinNotional * Scale
             THEN Val(r.suggested_quantity)
             ELSE ToFixed4(MinNotional * Scale, livePrice)
    ELSE \* Math.max(budget / livePrice, 100 / livePrice).toFixed(4)
         ToFixed4(Max(bud, MinNotional * Scale), livePrice)

\* No final validation
FinalCheckMissing(finalQuantity, livePrice) == FALSE

\* lines 563-564: finalNotional < 100
BelowMinimum(finalQuantity, livePrice) ==
    finalQuantity * livePrice < MinNotional * Scale

\* Only the lower bound applied
LeverageAtLeastOne(r) ==
    Max(IF Truthy(r.leverage) THEN Val(r.leverage) ELSE MinLeverage * Scale,
        MinLeverage * Scale)

\* line 576: Math.min(Math.max(r.leverage || 1, 1), 20), in units of 1/Scale
Leverage(r) ==
    Min(Max(IF Truthy(r.leverage) THEN Val(r.leverage) ELSE MinLeverage * Scale,
            MinLeverage * Scale),
        MaxLeverage * Scale)

\* lines 571-582; stopLoss, takeProfit, reason and confidence are copied from
\* r or constant and nothing reads them
Record(r, finalQuantity, livePrice) ==
    [symbol         |-> r.asset,
     action         |-> NormalizedAction(RawAction(r)),
     originalAction |-> RawAction(r),
     quantity       |-> finalQuantity,
     leverage       |-> Leverage(r),
     price          |-> IF Truthy(r.suggested_price)
                        THEN Val(r.suggested_price) ELSE livePrice]

-----------------------------------------------------------------------------
(* Inputs *)

Rec(action, asset, leverage, price, quantity) ==
    [action |-> action, asset |-> asset, leverage |-> leverage,
     suggested_price |-> price, suggested_quantity |-> quantity]

Spaced(a, b) == a \o <<" ">> \o b

WAIT == <<"W","A","I","T">>
ALL  == <<"A","L","L">>
SALE == <<"S","A","L","E">>

Actions ==
    {<<>>, BUY, LONG, AL, SELL, SHORT, SAT, CLOSE, EXIT, KAPAT, HOLD, STAY,
     <<"h","o","l","d">>, <<"S","t","a","y">>, <<"b","u","y">>, <<"s","a","t">>,
     WAIT, UPDATE, Spaced(SELL, ALL), Spaced(CLOSE, ALL), Spaced(SHORT, SALE)}

Assets == {BTCUSDT, ETHUSDT, SOLUSDT}

Leverages ==
    {Absent, Some(0 - Scale), Some(0), Some(Scale), Some(25000),
     Some(MaxLeverage * Scale), Some(1000 * Scale)}

SuggestedPrices == {Absent, Some(40000)}

\* absent, 0, 0.0001, 0.002 and 1
SuggestedQuantities == {Absent, Some(0), Some(1), Some(20), Some(Scale)}

AllRecs ==
    {Rec(a, s, l, p, q) : a \in Actions, s \in Assets, l \in Leverages,
                          p \in SuggestedPrices, q \in SuggestedQuantities}

CoreRecs ==
    {Rec(BUY, BTCUSDT, Some(Scale), Some(0), Some(0)),
     Rec(SAT, ETHUSDT, Absent, Absent, Some(1)),
     Rec(<<"l","o","n","g">>, <<"b","t","c","/","u","s","d","t">>,
         Some(1000 * Scale), Some(40000), Some(Scale)),
     Rec(KAPAT, SOLUSDT, Some(25000), Absent, Some(0 - 5)),
     Rec(<<"H","o","l","d">>, BTCUSDT, Absent, Absent, Some(Scale)),
     Rec(WAIT, ETHUSDT, Absent, Absent, Absent),
     Rec(Spaced(SELL, ALL), ETHUSDT, Absent, Absent, Some(Scale)),
     Rec(BUY, <<"D","O","G","E">>, Absent, Absent, Absent)}

\* The recommendation lists the reasoning service can return: every list of
\* at most MaxRecs core recommendations, and every single recommendation
RecLists == SeqsUpTo(CoreRecs, MaxRecs) \cup {<<r>> : r \in AllRecs}

Balance(asset, free) == [asset |-> asset, free |-> free]
Position(symbol, profit) == [symbol |-> symbol, unrealizedProfit |-> profit]

\* Request bodies: equity 1000, 140 (no USDT entry) and 3000; no goal, a
\* goal, and the string 'undefined' for a goal
Portfolios ==
    {[query |-> <<>>,
      balances |-> <<Balance("USDT", 1000)>>, positions |-> <<>>],
     [query |-> <<"Accumulate gold">>,
      balances |-> <<Balance("BNB", 3)>>,
      positions |-> <<Position(ETHUSDT, 0 - 60)>>],
     [query |-> <<"undefined">>,
      balances |-> <<Balance("BNB", 3), Balance("USDT", 2500)>>,
      positions |-> <<Position(BTCUSDT, 700),
                      Position(<<"s","o","l","-","u","s","d","t">>, 0 - 200)>>]}

\* Request bodies for the budget: no USDT entry, and free USDT of 0, 100, 150,
\* 160, 1000 and 5000, with no position, a loss of 50, a loss of 500, and a
\* gain of 50 next to a loss of 60
UsdtEntries ==
    {<<Balance("BNB", 3)>>} \cup
    {<<Balance("USDT", f)>> : f \in {0, 100, 150, 160, 1000, 5000}}

ProfitLists ==
    {<<>>,
     <<Position(ETHUSDT, 0 - 50)>>,
     <<Position(ETHUSDT, 0 - 500)>>,
     <<Position(BTCUSDT, 50), Position(ETHUSDT, 0 - 60)>>}

BudgetPortfolios ==
    {[query |-> <<>>, balances |-> b, positions |-> ps] :
        b \in UsdtEntries, ps \in ProfitLists}

\* What the reasoning service can answer in the audit
ParsedAudit ==
    [audit_findings |-> "Positions are healthy.", recommended_adjustments |-> <<>>]

\* What it can answer in the planning: no steps field, and three steps of
\* which the second has no query
Plans ==
    {[steps |-> Absent],
     [steps |-> Some(<<Step("Gold trend", Some(<<"gold price trend">>)),
                       Step("Crypto trend", Absent),
                       Step("Rates", Some(<<"fed rates">>))>>)]}

\* What it can answer in the ticker discovery: no list, a symbol to clean,
\* and a tracked symbol followed by one the exchange does not list
\* a candidate that is not a string: a JSON number.  The strings are tuples
\* of one-character strings, which this is not
NotAString == <<"number">>

CandidateLists ==
    {<<>>,
     <<NotAString>>,
     <<<<" ","s","o","l","/","u","s","d","t">>>>,
     <<BTCUSDT, <<"D","O","G","E">>>>}

\* What it can recommend in the runs of the whole handler
HandlerRecLists ==
    {<<>>,
     <<Rec(BUY, BTCUSDT, Absent, Absent, Absent)>>,
     <<Rec(BUY, BTCUSDT, Absent, Absent, Absent),
       Rec(<<"H","o","l","d">>, ETHUSDT, Absent, Absent, Absent)>>,
     <<Rec(SELL, ETHUSDT, Absent, Absent, Absent),
       Rec(BUY, <<"D","O","G","E">>, Absent, Absent, Absent)>>}

-----------------------------------------------------------------------------
(* The handler: part_000 lines 164-606 *)

\* The outbound calls the handler awaits
Awaits ==
    {"priceInjection", "audit", "planning", "research", "tickerDiscovery",
     "tickerPrices", "synthesis", "lookup"}

\* no second request is in flight
Idle ==
    [userQuery |-> <<>>, userBalances |-> <<>>, userPositions |-> <<>>,
     trackedAssets |-> <<>>, priceMap |-> <<>>, auditData |-> <<>>,
     planData |-> <<>>, stepResults |-> <<>>, newCandidates |-> <<>>,
     pos |-> 1, budget |-> 0, aborted |-> FALSE, pc |-> "idle",
     recommendations |-> <<>>, idx |-> 1, tradeRecommendations |-> <<>>,
     response |-> "none", log |-> <<>>, calls |-> <<>>]

\* one request is served and extractJSON is not studied on its own
Alone ==
    /\ other = Idle
    /\ str = <<>>
    /\ parsed = Absent

\* lines 164-180: a request has arrived
InitHandler ==
    /\ Alone
    /\ \E p \in Portfolios :
        /\ userQuery = p.query
        /\ userBalances = p.balances
        /\ userPositions = p.positions
    /\ trackedAssets = <<>>
    /\ priceMap = <<>>
    /\ auditData = Absent
    /\ planData = Absent
    /\ stepResults = <<>>
    /\ newCandidates = <<>>
    /\ pos = 1
    /\ budget = 0
    /\ aborted = FALSE
    /\ pc = "start"
    /\ recommendations = <<>>
    /\ idx = 1
    /\ tradeRecommendations = <<>>
    /\ response = "none"
    /\ log = <<>>
    /\ calls = <<>>

SharedController(run) == [run EXCEPT !.aborted = TRUE]

\* lines 169-170: the controller is a const of the handler's call, so the
\* signal of another request in flight is not this one's
OtherSignal(run) == run

\* The close handler not looking at the response
WritableEndedNever == FALSE

\* line 175: res.writableEnded, true from res.json on
WritableEnded == response # "none"

\* lines 174-179: the response stream closes, while the handler is suspended
\* or after it has returned, and the response has not ended
Abort ==
    /\ pc \in Awaits \/ pc = "done"
    /\ ~WritableEnded
    /\ ~aborted
    /\ aborted' = TRUE
    /\ other' = OtherSignal(other)
    /\ UNCHANGED <<str, parsed, userBalances, userPositions, early, late, pc,
                   response, calls>>

\* lines 596-605: which response the catch block writes for what was thrown
CatchOutcome(thrown) ==
    IF thrown = "abortError" \/ thrown = "Aborted" THEN "canceled" ELSE "error"

\* lines 594-606: the catch block
Caught(outcome) ==
    /\ response' = outcome
    /\ pc' = "done"

Catch(outcome) ==
    /\ Caught(outcome)
    /\ UNCHANGED <<apart, userBalances, userPositions, early, late, aborted>>

ThrewThenRetries(thrown, history) ==
    IF thrown = "nonSuccess"
    THEN /\ pc' = pc
         /\ calls' = Invoked(history, "reasoning", history[Len(history)].phase,
                             <<>>, aborted)
         /\ pos' = pos
         /\ response' = response
    ELSE /\ Caught(CatchOutcome(thrown))
         /\ calls' = history
         /\ pos' = pos

\* Something is thrown in one of the loops of phases 0, 3 and 3.5
Threw(thrown, history) ==
    /\ Caught(CatchOutcome(thrown))
    /\ calls' = history
    /\ pos' = pos

\* The handler goes on to its next await
Awaiting(nextPc, history, position) ==
    /\ pc' = nextPc
    /\ calls' = history
    /\ pos' = position
    /\ response' = response

\* lines 214-216, and after the loop the audit call of line 244
InjectionFrom(tracked, i, history) ==
    IF i <= Len(tracked)
    THEN IF aborted
         THEN Threw("Aborted", history)
         ELSE Awaiting("priceInjection",
                       Invoked(history, "price", "priceInjection", tracked[i], aborted), i)
    ELSE Awaiting("audit", Invoked(history, "reasoning", "audit", <<>>, aborted), i)

\* lines 182-216: the body is read and the first price is asked for
Start ==
    /\ pc = "start"
    /\ userQuery' = Goal(userQuery)
    /\ trackedAssets' = Tracked(userPositions)
    /\ InjectionFrom(Tracked(userPositions), 1, calls)
    /\ UNCHANGED <<apart, userBalances, userPositions, priceMap, auditData, planData,
                   stepResults, newCandidates, late, aborted>>

\* The symbol is entered whatever the lookup returned
InjectedAlways(map, sym, p) == Put(map, sym, IF Truthy(p) THEN Val(p) ELSE 0)

\* line 217: if (p) priceMap[sym] = p
Injected(map, sym, p) == IF Truthy(p) THEN Put(map, sym, Val(p)) ELSE map

PriceResult(p) == IF Truthy(p) THEN "price" ELSE "absent"

\* lines 216-218, and the loop up to its next await
PriceInjectionReturns ==
    /\ pc = "priceInjection"
    /\ \E p \in GetBinancePrice(trackedAssets[pos], aborted) :
          /\ priceMap' = Injected(priceMap, trackedAssets[pos], p)
          /\ InjectionFrom(trackedAssets, pos + 1, Returned(calls, PriceResult(p)))
    /\ UNCHANGED <<apart, userBalances, userPositions, userQuery, trackedAssets,
                   auditData, planData, stepResults, newCandidates, late, aborted>>

\* A text without JSON ends the run
AuditThrowsOnNoJson(outcome) ==
    outcome \in {"abortError", "nonSuccess", "emptyResponse", "noJson"}

\* lines 244-247: the rejection, the throw of line 96, the throw of line 247
AuditThrows(outcome) == outcome \in {"abortError", "nonSuccess", "emptyResponse"}

\* line 258: auditData.audit_findings, in the planning prompt, of an
\* auditData that is null
AuditUnreadable(outcome) == outcome = "jsonNull"

\* lines 250-251
AuditOf(outcome) == IF outcome = "json" THEN ParsedAudit ELSE FallbackAudit

\* lines 244-251, and the planning call of line 278
AuditReturns ==
    /\ pc = "audit"
    /\ \E outcome \in ReasoningOutcomes(aborted) :
          IF AuditThrows(outcome)
          THEN /\ Threw(outcome, Returned(calls, outcome))
               /\ UNCHANGED auditData
          ELSE IF AuditUnreadable(outcome)
          THEN /\ Threw("typeError", Returned(calls, outcome))
               /\ auditData' = Absent
          ELSE /\ auditData' = Some(AuditOf(outcome))
               /\ Awaiting("planning",
                           Invoked(Returned(calls, outcome), "reasoning", "planning",
                                   <<>>, aborted), pos)
    /\ UNCHANGED <<apart, userBalances, userPositions, userQuery, trackedAssets,
                   priceMap, planData, stepResults, newCandidates, late, aborted>>

\* Only the rejection ends the run
PlanningThrowsOnlyOnAbort(outcome) == outcome = "abortError"

\* lines 278-279: the rejection, the throw of line 96, and choices[0] of an
\* answer without choices
PlanningThrows(outcome) == outcome \in {"abortError", "nonSuccess", "emptyResponse"}

\* line 293: planData.steps of a planData that is null
PlanUnreadable(outcome) == outcome = "jsonNull"

\* lines 280-289
PlansOf(outcome, goal) == IF outcome = "json" THEN Plans ELSE {FallbackPlan(goal)}

\* lines 294-298, and after the loop the ticker call of line 328
ResearchThenPlansAgain(steps, goal, i, history) ==
    IF i <= Len(steps)
    THEN IF aborted
         THEN Threw("Aborted", history)
         ELSE Awaiting("research",
                       Invoked(history, "search", "research",
                               QueryToUse(steps[i], goal), aborted), i)
    ELSE Awaiting("planning",
                  Invoked(history, "reasoning", "planning", <<>>, aborted), i)

ResearchFrom(steps, goal, i, history) ==
    IF i <= Len(steps)
    THEN IF aborted
         THEN Threw("Aborted", history)
         ELSE Awaiting("research",
                       Invoked(history, "search", "research",
                               QueryToUse(steps[i], goal), aborted), i)
    ELSE Awaiting("tickerDiscovery",
                  Invoked(history, "reasoning", "tickerDiscovery", <<>>, aborted), i)

\* lines 278-298
PlanningReturns ==
    /\ pc = "planning"
    /\ \E outcome \in ReasoningOutcomes(aborted) :
          IF PlanningThrows(outcome)
          THEN /\ Threw(outcome, Returned(calls, outcome))
               /\ UNCHANGED planData
          ELSE IF PlanUnreadable(outcome)
          THEN /\ Threw("typeError", Returned(calls, outcome))
               /\ planData' = Absent
          ELSE \E plan \in PlansOf(outcome, userQuery) :
                  /\ planData' = Some(plan)
                  /\ ResearchFrom(Steps(plan), userQuery, 1, Returned(calls, outcome))
    /\ UNCHANGED <<apart, userBalances, userPositions, userQuery, trackedAssets,
                   priceMap, auditData, stepResults, newCandidates, late, aborted>>

\* What came back, for the history: the marker with an empty list, a body
\* with neither, or results
SearchResult(data) ==
    IF data = SearchFailed THEN "failed"
    ELSE IF data = SearchRefused THEN "unmarked"
    ELSE "results"

\* lines 298-311, and the loop up to its next await
SearchReturns ==
    /\ pc = "research"
    /\ \E data \in SearchOutcomes(aborted) :
          /\ stepResults' = Append(stepResults,
                                   StepResult(Steps(Val(planData))[pos], userQuery, data))
          /\ ResearchFrom(Steps(Val(planData)), userQuery, pos + 1,
                          Returned(calls, SearchResult(data)))
    /\ UNCHANGED <<apart, userBalances, userPositions, userQuery, trackedAssets,
                   priceMap, auditData, planData, newCandidates, late, aborted>>

\* lines 338-342, and after the loop the synthesis call of line 511
RECURSIVE DiscoveryFrom(_, _, _, _)
DiscoveryFrom(candidates, map, i, history) ==
    IF i <= Len(candidates)
    THEN IF aborted
         THEN Threw("Aborted", history)
         ELSE IF candidates[i] = NotAString
         THEN Threw("typeError", history)
         ELSE IF ~Truthy(Get(map, CleanSym(candidates[i])))
         THEN Awaiting("tickerPrices",
                       Invoked(history, "price", "tickerDiscovery",
                               CleanSym(candidates[i]), aborted), i)
         ELSE DiscoveryFrom(candidates, map, i + 1, history)
    ELSE Awaiting("synthesis", Invoked(history, "reasoning", "synthesis", <<>>, aborted), i)

\* lines 357-361: the budget is computed on the way to the synthesis call
Budgeted ==
    budget' = IF pc' = "synthesis"
              THEN BudgetOf(TotalEquity(userBalances, userPositions))
              ELSE budget

\* line 332: if (e.name === 'AbortError' || signal.aborted) throw e
TickerRethrows(outcome, isAborted) ==
    outcome = "abortError" \/ (outcome # "json" /\ isAborted)

\* lines 326-331: candidate_tickers || [], and [] when anything was thrown
CandidatesOf(outcome) == IF outcome = "json" THEN CandidateLists ELSE {<<>>}

\* lines 326-342
TickerReturns ==
    /\ pc = "tickerDiscovery"
    /\ \E outcome \in ReasoningOutcomes(aborted) :
          IF TickerRethrows(outcome, aborted)
          THEN /\ Threw(outcome, Returned(calls, outcome))
               /\ UNCHANGED <<newCandidates, budget>>
          ELSE \E candidates \in CandidatesOf(outcome) :
                  /\ newCandidates' = candidates
                  /\ DiscoveryFrom(candidates, priceMap, 1, Returned(calls, outcome))
                  /\ Budgeted
    /\ UNCHANGED <<apart, userBalances, userPositions, userQuery, trackedAssets,
                   priceMap, auditData, planData, stepResults, recommendations,
                   idx, tradeRecommendations, log, aborted>>

\* lines 342-346, and the loop up to its next await
TickerPriceReturns ==
    /\ pc = "tickerPrices"
    /\ LET cleanSym == CleanSym(newCandidates[pos])
       IN  \E p \in GetBinancePrice(cleanSym, aborted) :
              /\ priceMap' = Injected(priceMap, cleanSym, p)
              /\ DiscoveryFrom(newCandidates, Injected(priceMap, cleanSym, p),
                               pos + 1, Returned(calls, PriceResult(p)))
              /\ Budgeted
    /\ UNCHANGED <<apart, userBalances, userPositions, userQuery, trackedAssets,
                   auditData, planData, stepResults, newCandidates,
                   recommendations, idx, tradeRecommendations, log, aborted>>

\* A text without JSON is taken for an empty answer
SynthesisThrowsOnService(outcome) ==
    outcome \in {"abortError", "nonSuccess", "emptyResponse"}

\* lines 511-519: the rejection, the throw of line 96, choices[0] of an answer
\* without choices, the throw of extractJSON, and rawData.data of a rawData
\* that is null
SynthesisThrows(outcome) ==
    outcome \in {"abortError", "nonSuccess", "emptyResponse", "noJson", "jsonNull"}

\* lines 511-519: the synthesis call returns, its text is extracted, and the
\* recommendations are one of lists
SynthesisReturnsFrom(lists) ==
    /\ pc = "synthesis"
    /\ \E outcome \in ReasoningOutcomes(aborted) \cap {"abortError", "json"} :
          /\ calls' = Returned(calls, outcome)
          /\ IF SynthesisThrows(outcome)
             THEN Catch(CatchOutcome(outcome))
             ELSE \E recs \in lists :
                     /\ recommendations' = recs
                     /\ pc' = "loop"
                     /\ UNCHANGED <<apart, userBalances, userPositions, early, budget,
                                    aborted, idx, tradeRecommendations,
                                    response, log>>

SynthesisReturns == SynthesisReturnsFrom(RecLists)

SynthesisReturnsHandler == SynthesisReturnsFrom(HandlerRecLists)

\* lines 94-97 and 512-519: a non-success response, an answer without
\* choices, text with no JSON in it, or text that holds null
SynthesisFails ==
    /\ pc = "synthesis"
    /\ \E outcome \in ReasoningOutcomes(aborted)
                        \cap {"nonSuccess", "emptyResponse", "noJson", "jsonNull"} :
          /\ calls' = Returned(calls, outcome)
          /\ IF SynthesisThrows(outcome)
             THEN Catch(CatchOutcome(outcome))
             ELSE /\ pc' = "loop"
                  /\ UNCHANGED <<apart, userBalances, userPositions, early, late,
                                 aborted, response>>

Logged(outcome, price, quantity) ==
    [outcome |-> outcome, price |-> price, quantity |-> quantity]

\* continue: on to the next recommendation
Continue(entry) ==
    /\ idx' = idx + 1
    /\ pc' = "loop"
    /\ log' = Append(log, entry)
    /\ UNCHANGED <<apart, userBalances, userPositions, early, budget, aborted,
                   recommendations, tradeRecommendations, response>>

\* lines 519-540: the head of one iteration, up to the price lookup
LoopHead ==
    /\ pc = "loop"
    /\ idx <= Len(recommendations)
    /\ LET d == Disposition(recommendations[idx], aborted)
       IN  IF d = "continue"
           THEN Continue(Logged("skipped", Absent, Absent)) /\ UNCHANGED calls
           ELSE IF d = "throw"
           THEN Catch(CatchOutcome("Aborted")) /\ UNCHANGED calls
           ELSE /\ pc' = "lookup"
                /\ calls' = Invoked(calls, "price", "validation",
                                    recommendations[idx].asset, aborted)
                /\ UNCHANGED <<apart, userBalances, userPositions, early, late,
                               aborted, response>>

\* The lookup failing is an error of the run
UnpricedThrows(livePrice) == Catch("error")

\* line 541, the branch not taken: nothing is pushed
Unpriced(livePrice) == Continue(Logged("noPrice", livePrice, Absent))

Unshifted(list, rec) == <<rec>> \o list

\* line 571: tradeRecommendations.push
Pushed(list, rec) == Append(list, rec)

\* lines 542-583
Priced(r, livePrice) ==
    LET finalQuantity == FinalQuantity(r, livePrice, budget)
    IN  IF BelowMinimum(finalQuantity, livePrice)
        THEN Continue(Logged("belowMinimum", Some(livePrice), Some(finalQuantity)))
        ELSE /\ tradeRecommendations' =
                    Pushed(tradeRecommendations, Record(r, finalQuantity, livePrice))
             /\ idx' = idx + 1
             /\ pc' = "loop"
             /\ log' = Append(log, Logged("emitted", Some(livePrice), Some(finalQuantity)))
             /\ UNCHANGED <<apart, userBalances, userPositions, early, budget, aborted,
                            recommendations, response>>

\* lines 540-584: getBinancePrice returns and the iteration ends
PriceResponse ==
    /\ pc = "lookup"
    /\ \E livePrice \in GetBinancePrice(recommendations[idx].asset, aborted) :
          /\ calls' = Returned(calls, PriceResult(livePrice))
          /\ IF Truthy(livePrice)
             THEN Priced(recommendations[idx], Val(livePrice))
             ELSE Unpriced(livePrice)

\* lines 586-590: the loop is over
Respond ==
    /\ pc = "loop"
    /\ idx > Len(recommendations)
    /\ response' = "complete"
    /\ pc' = "done"
    /\ UNCHANGED <<apart, userBalances, userPositions, early, late, aborted, calls>>

NextHandler ==
    \/ Abort
    \/ Start
    \/ PriceInjectionReturns
    \/ AuditReturns
    \/ PlanningReturns
    \/ SearchReturns
    \/ TickerReturns
    \/ TickerPriceReturns
    \/ SynthesisReturnsHandler
    \/ SynthesisFails
    \/ LoopHead
    \/ PriceResponse
    \/ Respond

SpecHandler == InitHandler /\ [][NextHandler]_vars

-----------------------------------------------------------------------------
(* The handler from the synthesis call on, part_000 lines 357-606, over a    *)
(* wider range of recommendations.  It starts where a run is in which every  *)
(* price was absent, the audit and the planning fell back, both searches     *)
(* failed and the ticker call was refused.                                   *)

Finished(adapter, phase, arg, result) ==
    [Invocation(adapter, phase, arg, FALSE) EXCEPT !.result = result]

QuietSteps(goal) == Steps(FallbackPlan(goal))

QuietResearch(tracked, goal) ==
    [i \in 1..Len(tracked) |->
        Finished("price", "priceInjection", tracked[i], "absent")]
    \o <<Finished("reasoning", "audit", <<>>, "noJson"),
         Finished("reasoning", "planning", <<>>, "noJson"),
         Finished("search", "research", QueryToUse(QuietSteps(goal)[1], goal), "failed"),
         Finished("search", "research", QueryToUse(QuietSteps(goal)[2], goal), "failed")>>

QuietCalls(tracked, goal) ==
    QuietResearch(tracked, goal)
    \o <<Finished("reasoning", "tickerDiscovery", <<>>, "nonSuccess"),
         Invocation("reasoning", "synthesis", <<>>, FALSE)>>

Init ==
    /\ Alone
    /\ \E p \in Portfolios :
        /\ userQuery = Goal(p.query)
        /\ userBalances = p.balances
        /\ userPositions = p.positions
        /\ trackedAssets = Tracked(p.positions)
        /\ planData = Some(FallbackPlan(Goal(p.query)))
        /\ stepResults =
              [i \in 1..2 |-> StepResult(QuietSteps(Goal(p.query))[i],
                                         Goal(p.query), SearchFailed)]
        /\ budget = BudgetOf(TotalEquity(p.balances, p.positions))
        /\ calls = QuietCalls(Tracked(p.positions), Goal(p.query))
    /\ priceMap = <<>>
    /\ auditData = Some(FallbackAudit)
    /\ newCandidates = <<>>
    /\ pos = 1
    /\ aborted = FALSE
    /\ pc = "synthesis"
    /\ recommendations = <<>>
    /\ idx = 1
    /\ tradeRecommendations = <<>>
    /\ response = "none"
    /\ log = <<>>

Next ==
    \/ Abort
    \/ SynthesisReturns
    \/ SynthesisFails
    \/ LoopHead
    \/ PriceResponse
    \/ Respond

Spec == Init /\ [][Next]_vars

-----------------------------------------------------------------------------
(* The end of the ticker discovery and the budget, part_000 lines 326-361,   *)
(* over a wider range of portfolios.  It starts where the ticker call of the *)
(* same run is awaited.                                                      *)

InitBudget ==
    /\ Alone
    /\ \E p \in BudgetPortfolios :
        /\ userQuery = Goal(p.query)
        /\ userBalances = p.balances
        /\ userPositions = p.positions
        /\ trackedAssets = Tracked(p.positions)
        /\ planData = Some(FallbackPlan(Goal(p.query)))
        /\ stepResults =
              [i \in 1..2 |-> StepResult(QuietSteps(Goal(p.query))[i],
                                         Goal(p.query), SearchFailed)]
        /\ calls = Append(QuietResearch(Tracked(p.positions), Goal(p.query)),
                          Invocation("reasoning", "tickerDiscovery", <<>>, FALSE))
    /\ priceMap = <<>>
    /\ auditData = Some(FallbackAudit)
    /\ newCandidates = <<>>
    /\ pos = 3
    /\ budget = 0
    /\ aborted = FALSE
    /\ pc = "tickerDiscovery"
    /\ recommendations = <<>>
    /\ idx = 1
    /\ tradeRecommendations = <<>>
    /\ response = "none"
    /\ log = <<>>

NextBudget ==
    \/ Abort
    \/ TickerReturns
    \/ TickerPriceReturns

SpecBudget == InitBudget /\ [][NextBudget]_vars

-----------------------------------------------------------------------------
(* The variant of the handler that knows the UPDATE action: part_002 lines   *)
(* 118-395.  It has no abort signal and no minimum notional; its budget is   *)
(* the same expression (part_002 lines 291-295).                             *)

\* 'GÜNCELLE'; the element "Ue" stands for the one character U with diaeresis
GUNCELLE == <<"G","Ue","N","C","E","L","L","E">>

\* part_002 lines 346-356
NormalizedActionUpdateVariant(rawAction) ==
    IF Includes(rawAction, BUY) \/ Includes(rawAction, LONG) \/ Includes(rawAction, AL)
    THEN BUY
    ELSE IF Includes(rawAction, SELL) \/ Includes(rawAction, SHORT) \/ Includes(rawAction, SAT)
    THEN SELL
    ELSE IF Includes(rawAction, CLOSE) \/ Includes(rawAction, EXIT) \/ Includes(rawAction, KAPAT)
    THEN CLOSE
    ELSE IF Includes(rawAction, UPDATE) \/ Includes(rawAction, GUNCELLE) \/ Includes(rawAction, MODIFY)
    THEN UPDATE
    ELSE HOLD

\* part_002 lines 366-368
FinalQuantityUpdateVariant(r, livePrice, bud) ==
    IF NormalizedActionUpdateVariant(RawAction(r)) = UPDATE THEN 0
    ELSE IF IsPresent(r.suggested_quantity) /\ Val(r.suggested_quantity) > 0
    THEN Val(r.suggested_quantity)
    ELSE ToFixed4(bud, livePrice)

\* part_002 lines 370-381
RecordUpdateVariant(r, livePrice, bud) ==
    [symbol         |-> r.asset,
     action         |-> NormalizedActionUpdateVariant(RawAction(r)),
     originalAction |-> RawAction(r),
     quantity       |-> FinalQuantityUpdateVariant(r, livePrice, bud),
     leverage       |-> Leverage(r),
     price          |-> IF Truthy(r.suggested_price)
                        THEN Val(r.suggested_price) ELSE livePrice]

\* part_002 lines 334-342
SynthesisReturnsUpdateVariant ==
    /\ pc = "synthesis"
    /\ \E recs \in RecLists :
          /\ recommendations' = recs
          /\ pc' = "loop"
          /\ calls' = Returned(calls, "json")
          /\ UNCHANGED <<apart, userBalances, userPositions, early, budget, aborted,
                         idx, tradeRecommendations, response, log>>

\* part_002 lines 334-339 throwing, caught at lines 390-393
SynthesisFailsUpdateVariant ==
    /\ pc = "synthesis"
    /\ \E outcome \in {"nonSuccess", "emptyResponse", "noJson"} :
          calls' = Returned(calls, outcome)
    /\ Catch("error")

\* part_002 lines 342-363
LoopHeadUpdateVariant ==
    /\ pc = "loop"
    /\ idx <= Len(recommendations)
    /\ LET rawAction == RawAction(recommendations[idx])
       IN  IF \/ rawAction = HOLD
              \/ rawAction = STAY
              \/ NormalizedActionUpdateVariant(rawAction) = HOLD
           THEN Continue(Logged("skipped", Absent, Absent)) /\ UNCHANGED calls
           ELSE /\ pc' = "lookup"
                /\ calls' = Invoked(calls, "price", "validation",
                                    recommendations[idx].asset, FALSE)
                /\ UNCHANGED <<apart, userBalances, userPositions, early, late,
                               aborted, response>>

\* part_002 lines 363-383
PriceResponseUpdateVariant ==
    /\ pc = "lookup"
    /\ \E livePrice \in GetBinancePrice(recommendations[idx].asset, FALSE) :
          /\ calls' = Returned(calls, PriceResult(livePrice))
          /\ IF Truthy(livePrice)
             THEN LET rec == RecordUpdateVariant(recommendations[idx], Val(livePrice), budget)
                  IN  /\ tradeRecommendations' = Append(tradeRecommendations, rec)
                      /\ idx' = idx + 1
                      /\ pc' = "loop"
                      /\ log' = Append(log, Logged("emitted", livePrice, Some(rec.quantity)))
                      /\ UNCHANGED <<apart, userBalances, userPositions, early, budget,
                                     aborted, recommendations, response>>
             ELSE Continue(Logged("noPrice", livePrice, Absent))

NextUpdateVariant ==
    \/ SynthesisReturnsUpdateVariant
    \/ SynthesisFailsUpdateVariant
    \/ LoopHeadUpdateVariant
    \/ PriceResponseUpdateVariant
    \/ Respond

SpecUpdateVariant == Init /\ [][NextUpdateVariant]_vars

-----------------------------------------------------------------------------
(* The older handler: src/index.js lines 117-196.  It has no abort signal,   *)
(* no audit and no ticker discovery: a plan, its searches, the budget, the   *)
(* synthesis and a loop that prices every recommendation but HOLD.  It       *)
(* starts where the search of the one step of its fallback plan (line 138)   *)
(* is awaited.                                                               *)

\* line 148: context.userBalances?.find(b => b.asset === 'USDT')?.free || 200
UsdtOlderVariant(balances) ==
    LET found == {i \in 1..Len(balances) :
                     /\ balances[i].asset = "USDT"
                     /\ \A j \in 1..(i - 1) : balances[j].asset # "USDT"}
    IN  IF found # {} /\ balances[CHOOSE i \in found : TRUE].free # 0
        THEN balances[CHOOSE i \in found : TRUE].free
        ELSE DefaultUsdt

\* line 149
TotalEquityOlderVariant(balances, positions) ==
    SeqSum([i \in 1..Len(positions) |-> positions[i].unrealizedProfit])
        + UsdtOlderVariant(balances)

\* lines 173-180
RecordOlderVariant(r, livePrice, bud) ==
    [symbol   |-> r.asset,
     action   |-> r.action,
     quantity |-> ToFixed4(bud, livePrice),
     price    |-> livePrice]

\* lines 117-143
InitOlderVariant ==
    /\ Alone
    /\ \E p \in BudgetPortfolios :
        /\ userQuery = Goal(p.query)
        /\ userBalances = p.balances
        /\ userPositions = p.positions
        /\ planData = Some([steps |-> Some(<<Step("", Some(Goal(p.query)))>>)])
        /\ calls = <<Finished("reasoning", "planning", <<>>, "noJson"),
                     Invocation("search", "research", Goal(p.query), FALSE)>>
    /\ trackedAssets = <<>>
    /\ priceMap = <<>>
    /\ auditData = Absent
    /\ stepResults = <<>>
    /\ newCandidates = <<>>
    /\ pos = 1
    /\ budget = 0
    /\ aborted = FALSE
    /\ pc = "research"
    /\ recommendations = <<>>
    /\ idx = 1
    /\ tradeRecommendations = <<>>
    /\ response = "none"
    /\ log = <<>>

\* lines 143-163: the search of the last step returns, the budget is
\* computed and the synthesis is asked for
SearchReturnsOlderVariant ==
    /\ pc = "research"
    /\ \E data \in SearchOutcomes(FALSE) :
          /\ stepResults' = Append(stepResults, [step |-> "", data |-> data])
          /\ calls' = Invoked(Returned(calls, SearchResult(data)),
                              "reasoning", "synthesis", <<>>, FALSE)
    /\ budget' = BudgetOf(TotalEquityOlderVariant(userBalances, userPositions))
    /\ pc' = "synthesis"
    /\ UNCHANGED <<apart, userBalances, userPositions, userQuery, trackedAssets,
                   priceMap, auditData, planData, newCandidates, pos,
                   recommendations, idx, tradeRecommendations, log, aborted,
                   response>>

\* lines 163-171
SynthesisReturnsOlderVariant ==
    /\ pc = "synthesis"
    /\ \E recs \in SeqsUpTo(CoreRecs \cup {Rec(HOLD, BTCUSDT, Absent, Absent, Absent)}, 1) :
          /\ recommendations' = recs
          /\ pc' = "loop"
          /\ calls' = Returned(calls, "json")
          /\ UNCHANGED <<apart, userBalances, userPositions, early, budget, aborted,
                         idx, tradeRecommendations, response, log>>

\* lines 163-167 throwing, caught at lines 192-195
SynthesisFailsOlderVariant ==
    /\ pc = "synthesis"
    /\ \E outcome \in {"nonSuccess", "emptyResponse", "noJson", "jsonNull"} :
          calls' = Returned(calls, outcome)
    /\ Catch("error")

\* lines 171-173
LoopHeadOlderVariant ==
    /\ pc = "loop"
    /\ idx <= Len(recommendations)
    /\ IF recommendations[idx].action = HOLD
       THEN Continue(Logged("skipped", Absent, Absent)) /\ UNCHANGED calls
       ELSE /\ pc' = "lookup"
            /\ calls' = Invoked(calls, "price", "validation",
                                recommendations[idx].asset, FALSE)
            /\ UNCHANGED <<apart, userBalances, userPositions, early, late,
                           aborted, response>>

\* lines 173-183
PriceResponseOlderVariant ==
    /\ pc = "lookup"
    /\ \E livePrice \in GetBinancePrice(recommendations[idx].asset, FALSE) :
          /\ calls' = Returned(calls, PriceResult(livePrice))
          /\ IF Truthy(livePrice)
             THEN LET rec == RecordOlderVariant(recommendations[idx], Val(livePrice), budget)
                  IN  /\ tradeRecommendations' = Append(tradeRecommendations, rec)
                      /\ idx' = idx + 1
                      /\ pc' = "loop"
                      /\ log' = Append(log, Logged("emitted", livePrice, Some(rec.quantity)))
                      /\ UNCHANGED <<apart, userBalances, userPositions, early, budget,
                                     aborted, recommendations, response>>
             ELSE Continue(Logged("noPrice", livePrice, Absent))

NextOlderVariant ==
    \/ SearchReturnsOlderVariant
    \/ SynthesisReturnsOlderVariant
    \/ SynthesisFailsOlderVariant
    \/ LoopHeadOlderVariant
    \/ PriceResponseOlderVariant
    \/ Respond

SpecOlderVariant == InitOlderVariant /\ [][NextOlderVariant]_vars

-----------------------------------------------------------------------------
(* Two requests in flight: part_000 lines 164-606 called twice.  The handler *)
(* is an async function: while one call waits at an await, the event loop    *)
(* may run the other up to its next await.  The variables hold the request   *)
(* whose handler runs; other holds the one that waits.  Both start where     *)
(* their ticker call is awaited.                                             *)

\* the variables of the request whose handler runs
Running ==
    [userQuery |-> userQuery, userBalances |-> userBalances,
     userPositions |-> userPositions, trackedAssets |-> trackedAssets,
     priceMap |-> priceMap, auditData |-> auditData, planData |-> planData,
     stepResults |-> stepResults, newCandidates |-> newCandidates,
     pos |-> pos, budget |-> budget, aborted |-> aborted, pc |-> pc,
     recommendations |-> recommendations, idx |-> idx,
     tradeRecommendations |-> tradeRecommendations,
     response |-> response, log |-> log, calls |-> calls]

\* lines 182-334: the request of a caller, where its ticker call is awaited
\* after a run as quiet as the one Init starts from
AtTickerCall(p) ==
    [userQuery |-> Goal(p.query), userBalances |-> p.balances,
     userPositions |-> p.positions, trackedAssets |-> Tracked(p.positions),
     priceMap |-> <<>>, auditData |-> Some(FallbackAudit),
     planData |-> Some(FallbackPlan(Goal(p.query))),
     stepResults |-> [i \in 1..2 |-> StepResult(QuietSteps(Goal(p.query))[i],
                                                Goal(p.query), SearchFailed)],
     newCandidates |-> <<>>, pos |-> 3, budget |-> 0, aborted |-> FALSE,
     pc |-> "tickerDiscovery", recommendations |-> <<>>, idx |-> 1,
     tradeRecommendations |-> <<>>, response |-> "none", log |-> <<>>,
     calls |-> Append(QuietResearch(Tracked(p.positions), Goal(p.query)),
                      Invocation("reasoning", "tickerDiscovery", <<>>, FALSE))]

\* the variables are those of the request
Resumed(run) ==
    /\ userQuery' = run.userQuery
    /\ userBalances' = run.userBalances
    /\ userPositions' = run.userPositions
    /\ trackedAssets' = run.trackedAssets
    /\ priceMap' = run.priceMap
    /\ auditData' = run.auditData
    /\ planData' = run.planData
    /\ stepResults' = run.stepResults
    /\ newCandidates' = run.newCandidates
    /\ pos' = run.pos
    /\ budget' = run.budget
    /\ aborted' = run.aborted
    /\ pc' = run.pc
    /\ recommendations' = run.recommendations
    /\ idx' = run.idx
    /\ tradeRecommendations' = run.tradeRecommendations
    /\ response' = run.response
    /\ log' = run.log
    /\ calls' = run.calls

\* two callers, with different balances and positions
PairPortfolios ==
    {p \in Portfolios : p.query # <<"Accumulate gold">>}

InitPair ==
    /\ str = <<>>
    /\ parsed = Absent
    /\ \E p \in PairPortfolios, q \in PairPortfolios :
        /\ p # q
        /\ other = AtTickerCall(q)
        /\ userQuery = AtTickerCall(p).userQuery
        /\ userBalances = AtTickerCall(p).userBalances
        /\ userPositions = AtTickerCall(p).userPositions
        /\ trackedAssets = AtTickerCall(p).trackedAssets
        /\ priceMap = AtTickerCall(p).priceMap
        /\ auditData = AtTickerCall(p).auditData
        /\ planData = AtTickerCall(p).planData
        /\ stepResults = AtTickerCall(p).stepResults
        /\ newCandidates = AtTickerCall(p).newCandidates
        /\ pos = AtTickerCall(p).pos
        /\ budget = AtTickerCall(p).budget
        /\ aborted = AtTickerCall(p).aborted
        /\ pc = AtTickerCall(p).pc
        /\ recommendations = AtTickerCall(p).recommendations
        /\ idx = AtTickerCall(p).idx
        /\ tradeRecommendations = AtTickerCall(p).tradeRecommendations
        /\ response = AtTickerCall(p).response
        /\ log = AtTickerCall(p).log
        /\ calls = AtTickerCall(p).calls

\* the handler that runs has reached an await or its end, and the event
\* loop resumes the other, which waits for a call to settle
Switch ==
    /\ pc \in Awaits \cup {"done"}
    /\ other.pc \in Awaits
    /\ Resumed(other)
    /\ other' = Running
    /\ UNCHANGED <<str, parsed>>

NextPair ==
    \/ Switch
    \/ Abort
    \/ TickerReturns
    \/ TickerPriceReturns
    \/ SynthesisReturnsHandler
    \/ SynthesisFails
    \/ LoopHead
    \/ PriceResponse
    \/ Respond

SpecPair == InitPair /\ [][NextPair]_vars

-----------------------------------------------------------------------------
(* The extractor: part_000 lines 27-59, and the one of the service entry     *)
(* point, src/index.js lines 24-55.  A text is a tuple of lexemes: each      *)
(* brace, each quote that opens or closes a string value, each fence and     *)
(* each line break is a lexeme of its own, and so is every run of other      *)
(* characters (a key with its colon, a number with its comma, a word, a      *)
(* URL, the marker).                                                         *)

LBRACE == "{"
RBRACE == "}"
QUOTE == "\""
\* the three backquotes that open or close a fenced block
FENCE == "fence"
NL == "\n"
JSONTAG == "json"
\* line 31: const marker
MARKER == "\"type\": \"analysis_result\""
URL == "https://example.com/a"
\* what the regex of src/index.js line 26 leaves of URL
SCHEME == "https:"
WORD == "word"
KEYTEXT == "\"text\":"
KEYDATA == "\"data\":"
NUMBER == "\"n\": 1"

\* the runs that are members of an object, or the key of the value that follows
Members == {MARKER, KEYTEXT, KEYDATA, NUMBER}

\* String.prototype.indexOf, lastIndexOf(c, fromIndex), includes, substring,
\* s[i] and trim, with the 0-based positions of the source
IndexOf(s, c) ==
    IF \E i \in 1..Len(s) : s[i] = c
    THEN (CHOOSE i \in 1..Len(s) : s[i] = c /\ \A j \in 1..(i - 1) : s[j] # c) - 1
    ELSE -1

LastIndexOf(s, c, fromIndex) ==
    LET upTo == {i \in 1..Len(s) : i - 1 <= fromIndex /\ s[i] = c}
    IN  IF upTo = {} THEN -1
        ELSE (CHOOSE i \in upTo : \A j \in upTo : j <= i) - 1

Substring(s, from, to) ==
    LET lo == Max(0, Min(Min(from, to), Len(s)))
        hi == Max(0, Min(Max(from, to), Len(s)))
    IN  SubSeq(s, lo + 1, hi)

CharAt(s, i) == IF i \in 0..(Len(s) - 1) THEN s[i + 1] ELSE "undefined"

RECURSIVE TrimText(_)
TrimText(s) ==
    IF s = <<>> THEN s
    ELSE IF Head(s) = NL THEN TrimText(Tail(s))
    ELSE IF s[Len(s)] = NL THEN TrimText(SubSeq(s, 1, Len(s) - 1))
    ELSE s

\* JSON.parse: whether the text is one JSON value, an object or a string,
\* as far as braces, quotes and line breaks decide it
RECURSIVE WellFormed(_, _, _, _, _)
WellFormed(s, i, depth, inString, seen) ==
    IF i > Len(s) THEN depth = 0 /\ ~inString /\ seen
    ELSE LET c == s[i]
         IN  IF inString
             THEN IF c = QUOTE THEN WellFormed(s, i + 1, depth, FALSE, seen)
                  ELSE c # NL /\ WellFormed(s, i + 1, depth, TRUE, seen)
             ELSE IF c = NL THEN WellFormed(s, i + 1, depth, FALSE, seen)
             ELSE IF c = LBRACE
             THEN (depth > 0 \/ ~seen) /\ WellFormed(s, i + 1, depth + 1, FALSE, TRUE)
             ELSE IF c = RBRACE
             THEN depth > 0 /\ WellFormed(s, i + 1, depth - 1, FALSE, seen)
             ELSE IF c = QUOTE
             THEN (depth > 0 \/ ~seen) /\ WellFormed(s, i + 1, depth, TRUE, TRUE)
             ELSE c \in Members /\ depth > 0
                  /\ WellFormed(s, i + 1, depth, FALSE, seen)

\* the value JSON.parse returns: the text without its insignificant line
\* breaks; Absent when it throws
Value(s) == SelectSeq(s, LAMBDA c : c # NL)

JsonParse(s) == IF WellFormed(s, 1, 0, FALSE, FALSE) THEN Some(Value(s)) ELSE Absent

\* lines 35-42: the position where the balance returns to 0, -1 when the
\* loop runs to the end of the text
RECURSIVE BalancedEnd(_, _, _)
BalancedEnd(s, i, balance) ==
    IF i >= Len(s) THEN -1
    ELSE LET b == balance + (IF CharAt(s, i) = LBRACE THEN 1 ELSE 0)
                          - (IF CharAt(s, i) = RBRACE THEN 1 ELSE 0)
         IN  IF b = 0 THEN i ELSE BalancedEnd(s, i + 1, b)

\* line 45: the regex, which matches from the first fence to the next one;
\* match[1] is what lies between them without the tag and the white space
\* around it.  Absent when the regex does not match.
FenceMatch(s) ==
    LET first == IndexOf(s, FENCE)
        rest == Substring(s, first + 1, Len(s))
        next == IndexOf(rest, FENCE)
        inside == Substring(rest, 0, next)
    IN  IF first = -1 \/ next = -1 THEN Absent
        ELSE IF inside # <<>> /\ Head(inside) = JSONTAG
        THEN Some(TrimText(Tail(inside)))
        ELSE Some(TrimText(inside))

\* lines 48-53
BraceSpan(s) ==
    LET firstOpen == IndexOf(s, LBRACE)
        lastClose == LastIndexOf(s, RBRACE, Len(s))
    IN  IF firstOpen # -1 /\ lastClose # -1
        THEN JsonParse(Substring(s, firstOpen, lastClose + 1))
        ELSE Absent

\* lines 45-53
FenceOrBraces(s) ==
    LET match == FenceMatch(s)
    IN  IF IsPresent(match) /\ Val(match) # <<>>
        THEN JsonParse(Val(match))
        ELSE BraceSpan(s)

\* lines 31-57, after cleanStr is computed: the value returned, Absent when
\* the function throws
ExtractFrom(cleanStr) ==
    IF IndexOf(cleanStr, MARKER) # -1
    THEN LET start == LastIndexOf(cleanStr, LBRACE, IndexOf(cleanStr, MARKER))
             end == IF start = -1 THEN -1 ELSE BalancedEnd(cleanStr, start, 0)
         IN  IF start = -1 THEN JsonParse(Substring(cleanStr, start, 0))
             ELSE IF end # -1 THEN JsonParse(Substring(cleanStr, start, end + 1))
             ELSE FenceOrBraces(cleanStr)
    ELSE FenceOrBraces(cleanStr)

\* part_000 lines 27-59
ExtractJSON(text) == ExtractFrom(TrimText(text))

\* src/index.js line 26: the replace call, whose regex removes what
\* follows a // up to the end of its line
RECURSIVE StripComments(_, _)
StripComments(s, inComment) ==
    IF s = <<>> THEN s
    ELSE IF Head(s) = NL THEN <<NL>> \o StripComments(Tail(s), FALSE)
    ELSE IF inComment THEN StripComments(Tail(s), TRUE)
    ELSE IF Head(s) = URL THEN <<SCHEME>> \o StripComments(Tail(s), TRUE)
    ELSE <<Head(s)>> \o StripComments(Tail(s), FALSE)

\* src/index.js lines 24-55
ExtractJSONEntry(text) == ExtractFrom(TrimText(StripComments(text, FALSE)))

\* JSON objects a reasoning service may answer with
Objects ==
    {<<LBRACE, NUMBER, RBRACE>>,
     <<LBRACE, MARKER, RBRACE>>,
     <<LBRACE, MARKER, KEYDATA, LBRACE, NUMBER, RBRACE, RBRACE>>,
     <<LBRACE, KEYDATA, LBRACE, NUMBER, RBRACE, MARKER, RBRACE>>,
     <<LBRACE, KEYTEXT, QUOTE, URL, QUOTE, RBRACE>>,
     <<LBRACE, MARKER, KEYTEXT, QUOTE, URL, QUOTE, RBRACE>>,
     <<LBRACE, NL, MARKER, NL, KEYTEXT, QUOTE, URL, QUOTE, NL, NUMBER, NL, RBRACE>>,
     <<LBRACE, MARKER, KEYTEXT, QUOTE, LBRACE, WORD, RBRACE, QUOTE, RBRACE>>,
     <<LBRACE, MARKER, KEYTEXT, QUOTE, WORD, RBRACE, QUOTE, RBRACE>>,
     <<LBRACE, MARKER, KEYTEXT, QUOTE, LBRACE, WORD, QUOTE, RBRACE>>,
     <<LBRACE, KEYTEXT, QUOTE, LBRACE, WORD, RBRACE, QUOTE, MARKER, RBRACE>>,
     <<LBRACE, KEYTEXT, QUOTE, LBRACE, WORD, RBRACE, QUOTE, RBRACE>>}

\* what it may write around the object
Proses ==
    {<<>>,
     <<WORD>>,
     <<WORD, LBRACE, WORD, RBRACE, WORD>>,
     <<WORD, URL, NL, WORD>>}

Fenced(tag, object) == <<FENCE>> \o tag \o <<NL>> \o object \o <<NL, FENCE>>

FencedTexts ==
    {before \o Fenced(tag, object) \o after :
        before \in Proses, after \in Proses,
        tag \in {<<>>, <<JSONTAG>>}, object \in Objects}

BareTexts ==
    {before \o object \o after :
        before \in Proses, after \in Proses, object \in Objects \cup {<<>>}}

Texts == FencedTexts \cup BareTexts

\* no request is served
NoRequest ==
    /\ userQuery = Idle.userQuery
    /\ userBalances = Idle.userBalances
    /\ userPositions = Idle.userPositions
    /\ trackedAssets = Idle.trackedAssets
    /\ priceMap = Idle.priceMap
    /\ auditData = Idle.auditData
    /\ planData = Idle.planData
    /\ stepResults = Idle.stepResults
    /\ newCandidates = Idle.newCandidates
    /\ pos = Idle.pos
    /\ budget = Idle.budget
    /\ aborted = Idle.aborted
    /\ recommendations = Idle.recommendations
    /\ idx = Idle.idx
    /\ tradeRecommendations = Idle.tradeRecommendations
    /\ response = Idle.response
    /\ log = Idle.log
    /\ calls = Idle.calls
    /\ other = Idle

request == <<userBalances, userPositions, early, late, aborted, response, calls,
             other>>

\* extractJSON is called with a text
InitExtract ==
    /\ NoRequest
    /\ str \in Texts
    /\ parsed = Absent
    /\ pc = "extractJSON"

\* the call returns or throws
Extracted(result) ==
    /\ pc = "extractJSON"
    /\ parsed' = result
    /\ pc' = IF IsPresent(result) THEN "returned" ELSE "threw"
    /\ UNCHANGED <<request, str>>

\* part_000 lines 27-59
ExtractReturns == Extracted(ExtractJSON(str))

SpecExtract == InitExtract /\ [][ExtractReturns]_vars

\* src/index.js lines 24-55
ExtractReturnsEntry == Extracted(ExtractJSONEntry(str))

SpecExtractEntry == InitExtract /\ [][ExtractReturnsEntry]_vars

-----------------------------------------------------------------------------
(* Properties of the validation loop.  log[k] is the entry of                *)
(* recommendations[k]; the j-th emitted record comes from the j-th entry     *)
(* whose outcome is "emitted".                                               *)

Emitted(k) == log[k].outcome = "emitted"

SourceOf(j) ==
    CHOOSE k \in 1..Len(log) :
        Emitted(k) /\ Cardinality({m \in 1..k : Emitted(m)}) = j

Records == 1..Len(tradeRecommendations)

Positive(o) == IsPresent(o) /\ Val(o) > 0

\* C1: a recommendation is emitted only if its final quantity times the live
\* price fetched for its asset is at least the minimum notional; whatever
\* branch computed the quantity, a final notional below the minimum is dropped.
C1_EmittedMeetsMinimum ==
    /\ \A j \in Records :
          tradeRecommendations[j].quantity * Val(log[SourceOf(j)].price)
              >= MinNotional * Scale
    /\ \A k \in 1..Len(log) :
          (/\ IsPresent(log[k].quantity)
           /\ Val(log[k].quantity) * Val(log[k].price) < MinNotional * Scale)
              => ~Emitted(k)

\* A finished run that dropped a recommendation for its final notional and
\* emitted another one
C1_Witness ==
    /\ response = "complete"
    /\ \E k \in 1..Len(log) : log[k].outcome = "belowMinimum"
    /\ \E k \in 1..Len(log) : Emitted(k)

\* C2: every emitted record has quantity * price >= the minimum notional,
\* quantity and price being the fields of the record itself.
C2_RecordNotional ==
    \A j \in Records :
        tradeRecommendations[j].quantity * tradeRecommendations[j].price
            >= MinNotional * Scale

\* C3: the amount allocated to an emitted BUY or SELL, quantity * price, never
\* exceeds the per-trade budget.
C3_WithinBudget ==
    \A j \in Records :
        tradeRecommendations[j].action \in {BUY, SELL}
            => tradeRecommendations[j].quantity * Val(log[SourceOf(j)].price)
                   <= budget

\* C4: the leverage of every emitted record is within [1, 20], and is 1 when
\* the recommendation carries no leverage.
C4_LeverageClamped ==
    \A j \in Records :
        /\ tradeRecommendations[j].leverage >= MinLeverage * Scale
        /\ tradeRecommendations[j].leverage <= MaxLeverage * Scale
        /\ recommendations[SourceOf(j)].leverage = Absent
              => tradeRecommendations[j].leverage = Scale

\* Two emitted records: one asked for leverage 1000 and got 20, one asked for
\* none and got 1
C4_Witness ==
    /\ \E j \in Records :
          /\ recommendations[SourceOf(j)].leverage = Some(1000 * Scale)
          /\ tradeRecommendations[j].leverage = MaxLeverage * Scale
    /\ \E j \in Records :
          /\ recommendations[SourceOf(j)].leverage = Absent
          /\ tradeRecommendations[j].leverage = Scale

\* The words of a text, split at spaces
RECURSIVE WordsFrom(_, _)
WordsFrom(s, word) ==
    IF s = <<>> THEN (IF word = <<>> THEN {} ELSE {word})
    ELSE IF Head(s) = " "
         THEN (IF word = <<>> THEN {} ELSE {word}) \cup WordsFrom(Tail(s), <<>>)
         ELSE WordsFrom(Tail(s), Append(word, Head(s)))

Words(s) == WordsFrom(s, <<>>)

BuySynonyms == {BUY, LONG, AL}
SellSynonyms == {SELL, SHORT, SAT}
CloseSynonyms == {CLOSE, EXIT, KAPAT}

\* C5: every emitted record has action BUY, SELL or CLOSE, and a raw action
\* that matches none of the buy, sell and close synonyms is never emitted.
C5_ActionIsBuySellClose ==
    /\ \A j \in Records : tradeRecommendations[j].action \in {BUY, SELL, CLOSE}
    /\ \A k \in 1..Len(log) :
          (\A w \in BuySynonyms \cup SellSynonyms \cup CloseSynonyms :
              ~Includes(ToUpperCase(recommendations[k].action), w))
              => ~Emitted(k)

\* C6: an action is mapped to the synonym set its words belong to: BUY when a
\* word is a buy synonym, else SELL when a word is a sell synonym, else CLOSE
\* when a word is a close synonym.
C6_SynonymSetOfWords ==
    \A j \in Records :
        LET w == Words(tradeRecommendations[j].originalAction)
            a == tradeRecommendations[j].action
        IN  /\ w \cap BuySynonyms # {} => a = BUY
            /\ (w \cap SellSynonyms # {} /\ w \cap BuySynonyms = {}) => a = SELL
            /\ (/\ w \cap CloseSynonyms # {}
                /\ w \cap BuySynonyms = {}
                /\ w \cap SellSynonyms = {}) => a = CLOSE

\* C7: a recommendation whose action is HOLD or STAY in any letter case never
\* appears in tradeRecommendations.
C7_HoldStayDiscarded ==
    /\ \A k \in 1..Len(log) :
          ToUpperCase(recommendations[k].action) \in {HOLD, STAY} => ~Emitted(k)
    /\ \A j \in Records :
          ToUpperCase(tradeRecommendations[j].originalAction) \notin {HOLD, STAY}

\* A finished run that met a mixed-case Hold and emitted another recommendation
C7_Witness ==
    /\ response = "complete"
    /\ \E k \in 1..Len(log) :
          /\ recommendations[k].action = <<"H","o","l","d">>
          /\ log[k].outcome = "skipped"
    /\ Len(tradeRecommendations) = 1

\* C8: nothing is emitted unless the lookup for its asset returned a price; an
\* absent price drops that one recommendation only: the run goes on, it never
\* ends in failure for it, and unless the signal fired it ends as a complete
\* result with every recommendation processed.
C8_AbsentPriceDropsOne ==
    /\ \A k \in 1..Len(log) : Emitted(k) => Truthy(log[k].price)
    /\ Len(tradeRecommendations) = Cardinality({k \in 1..Len(log) : Emitted(k)})
    /\ recommendations # <<>> => response # "error"
    /\ response = "canceled" => aborted
    /\ (pc = "done" /\ ~aborted /\ recommendations # <<>>)
          => (response = "complete" /\ Len(log) = Len(recommendations))

\* A complete result in which a lookup returned nothing and a later
\* recommendation was emitted
C8_Witness ==
    /\ response = "complete"
    /\ ~aborted
    /\ \E k \in 1..Len(log) :
          /\ log[k].outcome = "noPrice"
          /\ \E m \in (k + 1)..Len(log) : Emitted(m)

\* n is num / den rounded to the nearest integer, the larger of two equally near
Nearest(n, num, den) ==
    /\ 2 * n * den - den <= 2 * num
    /\ 2 * num < 2 * n * den + den

\* C9, as amended: the final quantity is the suggested quantity unchanged when
\* it is positive and meets the minimum; minimum / price rounded to four
\* decimals when it is positive but under the minimum; max(budget, minimum) /
\* price rounded to four decimals otherwise.  Budget 100, no quantity and
\* price 50000 give 0.002, which is emitted.
C9_QuantityRounded ==
    \A k \in 1..Len(log) :
        IsPresent(log[k].quantity) =>
            LET r == recommendations[k]
                p == Val(log[k].price)
                q == Val(log[k].quantity)
            IN  /\ IF Positive(r.suggested_quantity)
                   THEN IF Val(r.suggested_quantity) * p >= MinNotional * Scale
                        THEN q = Val(r.suggested_quantity)
                        ELSE Nearest(q, MinNotional * Scale, p)
                   ELSE Nearest(q, Max(budget, MinNotional * Scale), p)
                /\ (/\ budget = 100 * Scale
                    /\ ~Positive(r.suggested_quantity)
                    /\ p = 50000) => (q = 20 /\ Emitted(k))
                /\ Emitted(k) =>
                      \E j \in Records :
                          SourceOf(j) = k /\ tradeRecommendations[j].quantity = q

\* Each of the three branches has computed a quantity, and the scenario of
\* budget 100 at price 50000 was emitted with quantity 0.002
C9_Witness ==
    /\ budget = 100 * Scale
    /\ response = "complete"
    /\ \E k \in 1..Len(log) :
          /\ recommendations[k].suggested_quantity = Some(0)
          /\ log[k].price = Some(50000)
          /\ log[k].quantity = Some(20)
          /\ Emitted(k)
    /\ \E k \in 1..Len(log) :
          /\ Positive(recommendations[k].suggested_quantity)
          /\ IsPresent(log[k].quantity)
          /\ log[k].quantity # recommendations[k].suggested_quantity

\* C9 as stated: the quantity is exactly minimum / price, or exactly
\* max(budget, minimum) / price.
C9_QuantityExact ==
    \A k \in 1..Len(log) :
        IsPresent(log[k].quantity) =>
            LET r == recommendations[k]
                p == Val(log[k].price)
                q == Val(log[k].quantity)
            IN  IF Positive(r.suggested_quantity)
                THEN IF Val(r.suggested_quantity) * p >= MinNotional * Scale
                     THEN q = Val(r.suggested_quantity)
                     ELSE q * p = MinNotional * Scale
                ELSE q * p = Max(budget, MinNotional * Scale)

\* C10: a recommendation whose positive suggested quantity is under the
\* minimum notional is recomputed to minimum / price and emitted with that
\* quantity, whose notional is the minimum.
C10_RaisedToMinimumEmitted ==
    \A k \in 1..Len(log) :
        (/\ Positive(recommendations[k].suggested_quantity)
         /\ Truthy(log[k].price)
         /\ Val(recommendations[k].suggested_quantity) * Val(log[k].price)
                < MinNotional * Scale)
            => /\ Emitted(k)
               /\ Val(log[k].quantity) * Val(log[k].price) >= MinNotional * Scale

-----------------------------------------------------------------------------
(* The handler as a whole *)

\* The handler has reached the call of a phase
Reached(phase) == \E i \in 1..Len(calls) : calls[i].phase = phase

\* C11: once the budget is computed it is the larger of 15 and a tenth of the
\* total equity, the equity being the sum of the unrealized profits plus the
\* USDT balance: an equity of 1,000 gives 100, and an equity of 150 or less,
\* negative ones included, gives 15.
C11_BudgetIsTenthOrFloor ==
    Reached("synthesis") =>
        LET totalEquity ==
                SeqSum([i \in 1..Len(userPositions) |->
                           userPositions[i].unrealizedProfit])
                    + Usdt(userBalances)
        IN  /\ 10 * budget = Max(150 * Scale, totalEquity * Scale)
            /\ totalEquity = 1000 => budget = 100 * Scale
            /\ totalEquity <= 150 => budget = 15 * Scale

C11_Witness ==
    /\ Reached("synthesis")
    /\ TotalEquity(userBalances, userPositions) < 0
    /\ budget = 15 * Scale

\* C12: a request ends in exactly one of a complete result, 'canceled' and an
\* error; a complete result was built with every recommendation processed
\* and with the signal not fired, so that none was left out by a cancellation.
C12_OneFaithfulOutcome ==
    /\ pc = "done" <=> response \in {"complete", "canceled", "error"}
    /\ pc # "done" <=> response = "none"
    /\ response = "complete" =>
          /\ ~aborted
          /\ Len(log) = Len(recommendations)

\* C13: once the signal has fired, whatever call was awaited at that moment,
\* the run ends as canceled, never as an error and never as complete.
C13_AbortEndsCanceled ==
    (pc = "done" /\ aborted) => response = "canceled"

CallsOf(phase, result) ==
    {i \in 1..Len(calls) : calls[i].phase = phase /\ calls[i].result = result}

\* C15: when the audit text holds no JSON the run goes on: the audit result
\* is the neutral fallback with no adjustments, and the planning call follows.
C15_AuditFallsBack ==
    \A i \in CallsOf("audit", "noJson") :
        /\ IsPresent(auditData)
        /\ Val(auditData).recommended_adjustments = <<>>
        /\ Val(auditData) # ParsedAudit
        /\ Len(calls) > i
        /\ calls[i + 1].phase = "planning"

\* Such a run went through planning, research and synthesis and ended complete
C15_Witness ==
    /\ CallsOf("audit", "noJson") # {}
    /\ Val(auditData) = FallbackAudit
    /\ Reached("research")
    /\ CallsOf("synthesis", "json") # {}
    /\ response = "complete"
    /\ tradeRecommendations # <<>>

\* C16: when the planning text holds no JSON the plan is the two steps built
\* from the goal alone, no further reasoning call is made for it, and the
\* research starts with the first of the two queries.
C16_PlanFallsBack ==
    \A i \in CallsOf("planning", "noJson") :
        /\ IsPresent(planData)
        /\ Val(planData).steps =
              Some(<<[action |-> "market_search", description |-> "Technical analysis",
                      searchQuery |-> Some(userQuery \o <<" 2026 technical analysis">>)],
                     [action |-> "market_search", description |-> "Macro news",
                      searchQuery |-> Some(<<"crypto macro news 2026">>)]>>)
        /\ Len(calls) > i
        /\ calls[i + 1].adapter = "search"
        /\ calls[i + 1].phase = "research"
        /\ calls[i + 1].arg = userQuery \o <<" 2026 technical analysis">>
        /\ Cardinality({j \in 1..i : calls[j].adapter = "reasoning"}) = 2

\* Both steps of the fallback plan of a goal of the caller's were searched
C16_Witness ==
    /\ CallsOf("planning", "noJson") # {}
    /\ userQuery = <<"Accumulate gold">>
    /\ Len(stepResults) = 2
    /\ stepResults[2].query = <<"crypto macro news 2026">>
    /\ Reached("tickerDiscovery")

\* C17: when the synthesis text holds no JSON the run ends as an error, with
\* no recommendation and no price lookup of the validation loop.
C17_SynthesisFailureIsFatal ==
    \A i \in CallsOf("synthesis", "noJson") :
        /\ pc = "done"
        /\ response = "error"
        /\ i = Len(calls)
        /\ tradeRecommendations = <<>>
        /\ ~Reached("validation")

C17_Witness ==
    /\ CallsOf("synthesis", "noJson") # {}
    /\ response = "error"
    /\ DOMAIN priceMap # {}

\* C18 as stated: a non-success answer to any reasoning call of the run,
\* the ticker call included, ends the run as an error.
C18_NonSuccessIsFatal ==
    \A i \in 1..Len(calls) :
        (calls[i].adapter = "reasoning" /\ calls[i].result = "nonSuccess") =>
            /\ pc = "done"
            /\ response = "error"
            /\ i = Len(calls)

\* C18: a non-success answer to the audit, planning or synthesis call ends
\* the run as an error, with no call after it; a non-success answer to the
\* ticker call is swallowed: there are no candidates, and the synthesis call
\* follows.
C18_NonSuccessIsFatalButForTickers ==
    \A i \in 1..Len(calls) :
        (calls[i].adapter = "reasoning" /\ calls[i].result = "nonSuccess") =>
            IF calls[i].phase = "tickerDiscovery"
            THEN /\ newCandidates = <<>>
                 /\ Len(calls) > i
                 /\ calls[i + 1].phase = "synthesis"
            ELSE /\ calls[i].phase \in {"audit", "planning", "synthesis"}
                 /\ pc = "done"
                 /\ response = "error"
                 /\ i = Len(calls)

\* The planning call was refused and the run ended as an error
C18_Witness ==
    /\ \E i \in 1..Len(calls) :
          /\ calls[i].phase = "planning"
          /\ calls[i].result = "nonSuccess"
    /\ response = "error"
    /\ ~Reached("research")

\* The positions in the history of the search invocations, in order
SearchCalls == {i \in 1..Len(calls) : calls[i].adapter = "search"}

\* How many searches were invoked up to position i of the history
SearchesUpTo(i) == Cardinality({j \in SearchCalls : j <= i})

\* C19: a search that fails, by an exception or by a refusal of the service,
\* throws nothing and returns the error marker with an empty list; its step
\* is recorded with no snippets, and the run goes on to the next search or
\* to the ticker call (it ends there only as canceled, when the signal has
\* fired).
C19_SearchFailureIsMarked ==
    \A i \in SearchCalls :
        calls[i].result \in {"failed", "unmarked"} =>
            /\ calls[i].result = "failed"
            /\ Len(stepResults) >= SearchesUpTo(i)
            /\ stepResults[SearchesUpTo(i)].data.results = <<>>
            /\ stepResults[SearchesUpTo(i)].query = calls[i].arg
            /\ IF Len(calls) > i
               THEN calls[i + 1].phase \in {"research", "tickerDiscovery"}
               ELSE aborted /\ response = "canceled"

\* The positions in the history of the price lookups that returned nothing
AbsentPrices ==
    {i \in 1..Len(calls) : calls[i].adapter = "price" /\ calls[i].result = "absent"}

\* C20: a price lookup throws nothing and an absent price only leaves its
\* instrument out: the price map holds a symbol only with a price a lookup
\* returned for it, no record is emitted without one, the handler goes on
\* to its next call unless the run is over, and a run that ends as an error
\* does so on a reasoning call.
C20_AbsentPriceOnlySkips ==
    /\ \A k \in DOMAIN priceMap :
          /\ priceMap[k] > 0
          /\ \E i \in 1..Len(calls) :
                /\ calls[i].adapter = "price"
                /\ calls[i].arg = k
                /\ calls[i].result = "price"
    /\ \A i \in AbsentPrices :
          /\ calls[i].phase \in {"priceInjection", "tickerDiscovery"}
                => (Len(calls) > i \/ response = "canceled")
          /\ calls[i].phase = "validation"
                => (Len(calls) > i \/ pc = "loop" \/ response \in {"complete", "canceled"})
    /\ Len(tradeRecommendations) <=
          Cardinality({i \in 1..Len(calls) :
                          /\ calls[i].phase = "validation"
                          /\ calls[i].result = "price"})
    /\ response = "error" =>
          /\ calls[Len(calls)].adapter = "reasoning"
          /\ calls[Len(calls)].result \in
                {"nonSuccess", "emptyResponse", "noJson", "json", "jsonNull"}

\* A price was absent in each of the three phases and the run ended complete
C20_Witness ==
    /\ \A ph \in {"priceInjection", "tickerDiscovery", "validation"} :
          \E i \in AbsentPrices : calls[i].phase = ph
    /\ ~aborted
    /\ response = "complete"
    /\ tradeRecommendations # <<>>

-----------------------------------------------------------------------------
(* The extractor *)

\* the call of extractJSON has ended
ExtractEnded == pc \in {"returned", "threw"}

\* the text is the object, fenced, between two proses
IsFenced(text, object) ==
    \E before \in Proses, after \in Proses, tag \in {<<>>, <<JSONTAG>>} :
        text = before \o Fenced(tag, object) \o after

\* the text is the object, fenced or not, between two proses
Holds(text, object) ==
    \/ IsFenced(text, object)
    \/ \E before \in Proses, after \in Proses : text = before \o object \o after

Has(s, c) == \E i \in 1..Len(s) : s[i] = c

\* position i of the object lies inside a string value
InString(object, i) ==
    Cardinality({j \in 1..(i - 1) : object[j] = QUOTE}) % 2 = 1

BraceInString(object) ==
    \E i \in 1..Len(object) : object[i] \in {LBRACE, RBRACE} /\ InString(object, i)

\* C21: whenever the text is a well-formed JSON object in a fenced block
\* between arbitrary prose, prose with braces and URLs included, extractJSON
\* returns exactly the object inside the fence.
C21_FencedObjectIsReturned ==
    ExtractEnded =>
        \A object \in Objects :
            IsFenced(str, object) => parsed = Some(Value(object))

\* C22: whenever the text contains the marker inside an object whose string
\* values contain brace characters, extractJSON returns that whole object,
\* from the brace before the marker to the brace that matches it.
C22_BracesInStringsAreSkipped ==
    ExtractEnded =>
        \A object \in Objects :
            /\ Holds(str, object)
            /\ Has(object, MARKER)
            /\ BraceInString(object)
            => parsed = Some(Value(object))

\* C23: extractJSON removes nothing that looks like a // comment: an object
\* with a URL in a string value comes back whole, from the extractor of
\* src/index.js as from the later ones.
C23_UrlsAreKept ==
    ExtractEnded =>
        \A object \in Objects :
            /\ IsFenced(str, object)
            /\ Has(object, URL)
            => /\ pc = "returned"
               /\ Has(Val(parsed), URL)
               /\ parsed = Some(Value(object))

-----------------------------------------------------------------------------
(* The handler as a whole, continued *)

\* C24: the emitted list is a subsequence of the raw list in the raw order:
\* the records are as many as the recommendations the loop emitted, the j-th
\* record is made of the j-th emitted recommendation, whose place in the raw
\* list grows with j.
C24_RecordsFollowTheRawOrder ==
    /\ Len(log) <= Len(recommendations)
    /\ Len(tradeRecommendations) = Cardinality({k \in 1..Len(log) : Emitted(k)})
    /\ \A j \in Records :
        /\ tradeRecommendations[j].symbol = recommendations[SourceOf(j)].asset
        /\ tradeRecommendations[j].originalAction
               = RawAction(recommendations[SourceOf(j)])
        /\ \A i \in 1..(j - 1) : SourceOf(i) < SourceOf(j)

\* a complete run that emitted two records from recommendations that differ
C24_Witness ==
    /\ response = "complete"
    /\ Len(tradeRecommendations) = 2
    /\ tradeRecommendations[1].symbol # tradeRecommendations[2].symbol

\* what one request's outcome is made of is its own: it is canceled only if
\* its own signal fired, its budget is that of its own balances and
\* positions, and its records are made of its own recommendations
OwnOutcome(run) ==
    /\ run.response = "canceled" => run.aborted
    /\ run.budget \in {0, BudgetOf(TotalEquity(run.userBalances,
                                           run.userPositions))}
    /\ \A j \in 1..Len(run.tradeRecommendations) :
        \E k \in 1..Len(run.recommendations) :
            run.tradeRecommendations[j].symbol = run.recommendations[k].asset
    /\ \A k \in DOMAIN run.priceMap :
        \E i \in 1..Len(run.calls) :
            run.calls[i].adapter = "price" /\ run.calls[i].arg = k

\* C25: two requests in flight share nothing: a step of one handler, the
\* abort of its signal included, leaves the other request as it is, and both
\* requests' price maps, budgets, records and outcomes are their own.
C25_RunsShareNothing ==
    /\ [](OwnOutcome(Running) /\ OwnOutcome(other))
    /\ [][Switch \/ other' = other]_vars

\* one request was canceled and the other went on to a complete response
\* with a record
C25_Witness ==
    /\ other.response = "canceled"
    /\ response = "complete"
    /\ ~aborted
    /\ tradeRecommendations # <<>>

\* C26: every call of the reasoning adapter has a bounded wait of its own,
\* the calls that pass the handler's signal included: a call the service
\* never answers is ended by the adapter's timer after at most the default
\* ceiling.
C26_ReasoningCallsAreTimed ==
    \A i \in 1..Len(calls) :
        calls[i].adapter = "reasoning" /\ calls[i].sent
            => /\ IsPresent(calls[i].deadline)
               /\ Val(calls[i].deadline) <= DefaultCeiling

\* the phases in the order of the source
Phases ==
    <<"priceInjection", "audit", "planning", "research", "tickerDiscovery",
      "synthesis", "validation">>

Rank(phase) == CHOOSE n \in 1..Len(Phases) : Phases[n] = phase

Issued(phase) == \E i \in 1..Len(calls) : calls[i].phase = phase

\* C27: the phases run one after the other and only forward: the calls are
\* made in the order price injection, audit, planning, research, ticker
\* discovery, synthesis, validation, no call is made while another is still
\* awaited, and a phase makes its first call only when the result of the
\* phase before it is there.
C27_PhasesRunInOrder ==
    /\ \A i \in 1..(Len(calls) - 1) :
        /\ calls[i].result # "pending"
        /\ Rank(calls[i].phase) <= Rank(calls[i + 1].phase)
    /\ Issued("planning") => IsPresent(auditData)
    /\ Issued("research") => IsPresent(planData)
    /\ Issued("tickerDiscovery") =>
        /\ IsPresent(planData)
        /\ Len(stepResults) = Len(Steps(Val(planData)))
    /\ Issued("synthesis") =>
        /\ CallsOf("tickerDiscovery", "pending") = {}
        /\ budget > 0
    /\ Issued("validation") => CallsOf("synthesis", "json") # {}

\* a complete run that made calls in all seven phases
C27_Witness ==
    /\ response = "complete"
    /\ \A n \in 1..Len(Phases) : Issued(Phases[n])

ReasoningCalls == {i \in 1..Len(calls) : calls[i].adapter = "reasoning"}

\* the steps the research phase executes, none before the plan is there
ExecutedSteps == IF IsPresent(planData) THEN Steps(Val(planData)) ELSE <<>>

\* C28: nothing is retried: each of the four reasoning phases calls the
\* reasoning service at most once, a run makes at most four such calls, and
\* the k-th search is the one of the k-th executed plan step, so that each
\* executed step is searched once whether or not its search failed.
C28_NoRetry ==
    /\ \A phase \in {"audit", "planning", "tickerDiscovery", "synthesis"} :
        Cardinality({i \in ReasoningCalls : calls[i].phase = phase}) <= 1
    /\ \A i \in ReasoningCalls :
        calls[i].phase \in {"audit", "planning", "tickerDiscovery", "synthesis"}
    /\ Cardinality(ReasoningCalls) <= 4
    /\ Cardinality(SearchCalls) <= Len(ExecutedSteps)
    /\ \A i \in SearchCalls :
        calls[i].arg = QueryToUse(ExecutedSteps[SearchesUpTo(i)], userQuery)

\* a run whose first search failed and whose ticker call was refused, and
\* which went on to a complete response with four reasoning calls and two
\* searches
C28_Witness ==
    /\ response = "complete"
    /\ Cardinality(ReasoningCalls) = 4
    /\ Cardinality(SearchCalls) = 2
    /\ \E i \in SearchCalls : SearchesUpTo(i) = 1 /\ calls[i].result = "failed"
    /\ CallsOf("tickerDiscovery", "nonSuccess") # {}

\* the steps of the plan as the planning phase left them
PlannedSteps ==
    IF IsPresent(planData) /\ IsPresent(Val(planData).steps)
    THEN Val(Val(planData).steps) ELSE <<>>

\* C29: the research phase executes at most two steps, the first two of the
\* plan in the plan's order: at most two searches are made and two results
\* kept, the k-th search is that of the k-th planned step, and the steps
\* beyond the second are dropped without a failure: the run goes on to the
\* ticker call, and a run that ends as an error ends so after a reasoning
\* call, never after a search.
C29_AtMostTwoSteps ==
    /\ Cardinality(SearchCalls) <= 2
    /\ Len(stepResults) <= 2
    /\ Cardinality(SearchCalls) <= Len(PlannedSteps)
    /\ \A i \in SearchCalls :
        calls[i].arg = QueryToUse(PlannedSteps[SearchesUpTo(i)], userQuery)
    /\ \A k \in 1..Len(stepResults) : stepResults[k].step = PlannedSteps[k].description
    /\ Len(PlannedSteps) > 2 /\ Len(stepResults) = 2 /\ ~aborted
           => Issued("tickerDiscovery")
    /\ response = "error" => calls[Len(calls)].adapter = "reasoning"

\* a complete run whose plan had three steps
C29_Witness ==
    /\ response = "complete"
    /\ Len(PlannedSteps) = 3
    /\ Cardinality(SearchCalls) = 2
    /\ Len(stepResults) = 2

\* C30: every key of the price map is a normalized symbol: upper case, with
\* no slash, space or hyphen, whatever the symbols of the caller's positions
\* and the candidate tickers are.
C30_KeysAreNormalized ==
    \A k \in DOMAIN priceMap : k = CleanSymbol(k)

\* C31: within a run the price map only grows: a symbol that has an entry
\* has it, with the same price, after every later step.
C31_PriceMapOnlyGrows ==
    [][\A k \in DOMAIN priceMap :
          k \in DOMAIN priceMap' /\ priceMap'[k] = priceMap[k]]_vars

\* a complete run whose price map was filled in phase 0 and again in the
\* ticker discovery
C31_Witness ==
    /\ response = "complete"
    /\ \E i \in 1..Len(calls) :
          calls[i].phase = "priceInjection" /\ calls[i].result = "price"
    /\ \E i \in 1..Len(calls) :
          calls[i].phase = "tickerDiscovery" /\ calls[i].result = "price"
    /\ Cardinality(DOMAIN priceMap) >= 3

\* the lookups for which a request went out to the price oracle
PriceFetches == {i \in 1..Len(calls) : calls[i].adapter = "price" /\ calls[i].sent}

\* C32: within a run every instrument is fetched from the price oracle at
\* most once, over price injection, ticker discovery and the lookups of the
\* validation loop together.
C32_EachSymbolFetchedOnce ==
    \A i \in PriceFetches, j \in PriceFetches :
        i # j => CleanSymbol(calls[i].arg) # CleanSymbol(calls[j].arg)

\* C33: in the ticker discovery a price is fetched only for a candidate
\* that has no entry in the price map and is stored only when it is present,
\* and whatever fails in the phase is swallowed: a run that made the ticker
\* call and was not canceled goes on to the synthesis call.
C33_TickerFailuresAreSwallowed ==
    /\ \A i \in 1..Len(calls) :
          /\ calls[i].adapter = "price"
          /\ calls[i].phase = "tickerDiscovery"
          /\ calls[i].result \in {"pending", "absent"}
          => calls[i].arg \notin DOMAIN priceMap
    /\ Issued("tickerDiscovery") /\ pc = "done" /\ response # "canceled"
          => Issued("synthesis")

\* the text holds a fenced block whose interior is valid JSON
ValidFence(text) ==
    LET match == FenceMatch(TrimText(text))
    IN  IsPresent(match) /\ IsPresent(JsonParse(Val(match)))

\* the text from its first opening to its last closing brace is valid JSON
ValidBraceSpan(text) == IsPresent(BraceSpan(TrimText(text)))

\* C34: extractJSON fails only when all three strategies are exhausted: a
\* text with the marker whose marker-anchored span is missing or does not
\* parse, but which holds a valid fenced block or a valid first-to-last-brace
\* object, still gives a value.
C34_FailsOnlyWhenExhausted ==
    ExtractEnded /\ Has(str, MARKER) /\ (ValidFence(str) \/ ValidBraceSpan(str))
        => pc = "returned"

\* the calls of a phase that were answered with text: text with no JSON,
\* with the expected JSON, or with JSON of another shape
AnsweredWithText(phase) ==
    {i \in 1..Len(calls) :
        calls[i].phase = phase /\ calls[i].result \in {"noJson", "json", "jsonNull"}}

\* C35: whatever text the audit or the planning call is answered with, text
\* that parses to a value of unexpected shape included, the run goes on to
\* the next phase and the answer does not end it as an error.
C35_TextNeverFailsAuditOrPlanning ==
    /\ AnsweredWithText("audit") # {} => Issued("planning")
    /\ AnsweredWithText("planning") # {} =>
          Issued("research") \/ Issued("tickerDiscovery") \/ response = "canceled"

\* C36: every emitted record has a whole number as leverage and a quantity
\* above 0, whatever leverage (2.5, say) and whatever quantity the
\* recommendation carries.
C36_WholeLeveragePositiveQuantity ==
    \A j \in Records :
        /\ tradeRecommendations[j].leverage % Scale = 0
        /\ tradeRecommendations[j].quantity > 0

\* C37: normalizing an action that is already normalized yields it again: the
\* action of every emitted record is BUY, SELL or CLOSE and normalizes to
\* itself, and a recommendation whose action is one of these three words is
\* emitted with that word.
C37_NormalizationIsIdempotent ==
    \A j \in Records :
        LET action == tradeRecommendations[j].action
            r      == recommendations[SourceOf(j)]
        IN  /\ action \in {BUY, SELL, CLOSE}
            /\ NormalizedAction(action) = action
            /\ RawAction(r) \in {BUY, SELL, CLOSE} => action = RawAction(r)

\* A finished run that emitted a BUY asked for as BUY and a CLOSE asked for
\* in another word
C37_Witness ==
    /\ response = "complete"
    /\ \E j \in Records :
          /\ tradeRecommendations[j].action = BUY
          /\ tradeRecommendations[j].originalAction = BUY
    /\ \E j \in Records :
          /\ tradeRecommendations[j].action = CLOSE
          /\ tradeRecommendations[j].originalAction # CLOSE

-----------------------------------------------------------------------------
(* The budget, continued *)

\* C38: the budget never decreases when the equity increases: against the
\* budget computed for the request, every portfolio of no more equity has no
\* larger a budget and every portfolio of no less equity has no smaller one.
C38_BudgetIsMonotone ==
    Reached("synthesis") =>
        LET totalEquity == TotalEquity(userBalances, userPositions)
        IN  \A p \in BudgetPortfolios :
                LET equity == TotalEquity(p.balances, p.positions)
                IN  /\ equity <= totalEquity => BudgetOf(equity) <= budget
                    /\ equity >= totalEquity => BudgetOf(equity) >= budget

\* A budget above the floor, with a portfolio of less equity and a smaller
\* budget, one of negative equity at the floor, and one of more equity and a
\* larger budget
C38_Witness ==
    /\ Reached("synthesis")
    /\ budget > MinPositionFloor * Scale
    /\ \E p \in BudgetPortfolios :
          /\ TotalEquity(p.balances, p.positions) < TotalEquity(userBalances, userPositions)
          /\ BudgetOf(TotalEquity(p.balances, p.positions)) < budget
    /\ \E p \in BudgetPortfolios :
          /\ TotalEquity(p.balances, p.positions) < 0
          /\ BudgetOf(TotalEquity(p.balances, p.positions)) = MinPositionFloor * Scale
    /\ \E p \in BudgetPortfolios :
          /\ TotalEquity(p.balances, p.positions) > TotalEquity(userBalances, userPositions)
          /\ BudgetOf(TotalEquity(p.balances, p.positions)) > budget

-----------------------------------------------------------------------------
(* The handler as a whole: responses *)

\* C39: at most one response is written per request wherever the abort falls:
\* a response is written once, as one of complete, canceled and error, by the
\* step that ends the run, it is never replaced by another, and the signal
\* does not fire once it has been written.
C39_AtMostOneResponse ==
    [][/\ response # "none" => response' = response /\ aborted' = aborted
       /\ response' # response =>
             /\ response' \in {"complete", "canceled", "error"}
             /\ pc # "done" /\ pc' = "done"]_vars

\* The abort fell in the last await of the run and one response, the complete
\* one, was written after it
C39_Witness ==
    /\ pc = "done"
    /\ aborted
    /\ response = "complete"
    /\ calls[Len(calls)].afterAbort = FALSE

\* what the find of the USDT entry returns
UsdtEntry(balances) ==
    {balances[i] : i \in {i \in 1..Len(balances) : balances[i].asset = "USDT"}}

\* C40: the balance that enters the budget is the free balance of the caller's
\* USDT entry whenever there is one, a free balance of 0 included, which with
\* no unrealized profit gives the floor; it is 200 only when there is no USDT
\* entry.
C40_FreeBalanceIsUsed ==
    Reached("synthesis") =>
        LET profit == SeqSum([i \in 1..Len(userPositions) |->
                                 userPositions[i].unrealizedProfit])
        IN  /\ \A b \in UsdtEntry(userBalances) :
                  /\ 10 * budget = Max(150 * Scale, (profit + b.free) * Scale)
                  /\ b.free = 0 /\ profit = 0 => budget = MinPositionFloor * Scale
            /\ UsdtEntry(userBalances) = {} =>
                  10 * budget = Max(150 * Scale, (profit + DefaultUsdt) * Scale)

====
